---------------------------- MODULE Spec2Model ----------------------------
(***************************************************************************)
(* A model of the Lagrange point orbit simulator                           *)
(* (src/src/lagrangepointsimulator): the validated parameters of the       *)
(* Simulator class, its six trajectory buffers, simulate() with the        *)
(* position-Verlet integrator of numba_funcs.py, and the read-only         *)
(* accessors.                                                              *)
(*                                                                         *)
(* Numbers.  The program computes in IEEE doubles.  The model computes in  *)
(* fixed point: a real x is the integer x * Scale, products and quotients  *)
(* are truncated toward zero (symmetric in the sign, as IEEE rounding is), *)
(* sums are exact.  The physical constants keep their role but are given   *)
(* in model units small enough for TLC's 32-bit integers: lengths        *)
(* in AU, a model hour of 0.1 time units, a model year of three model      *)
(* hours, and masses of the order of 10..100, so that one orbit takes      *)
(* about 2*pi time units.                                                  *)
(***************************************************************************)
EXTENDS Integers, Sequences, FiniteSets, TLC

(***************************************************************************)
(* Fixed-point arithmetic                                                  *)
(***************************************************************************)

\* resolution of the model's reals: x is stored as x * Scale
Scale == 1000

Abs(a) == IF a < 0 THEN -a ELSE a

Sgn(a) == IF a < 0 THEN -1 ELSE IF a > 0 THEN 1 ELSE 0

\* an integer quantity as a real
R(n) == n * Scale

\* the element of a one-element set.  TheOne({e(x) : x \in {v}}) is e(v) with v
\* evaluated once: what "x = v; ... x ... x ..." does in the program
TheOne(S) == CHOOSE r \in S : TRUE

\* a * b, truncated toward zero; split so that no intermediate overflows
FMul(a, b) ==
    LET x == Abs(a)
        y == Abs(b)
    IN Sgn(a) * Sgn(b) * ((x \div Scale) * y + ((x % Scale) * y) \div Scale)

\* a / b for b # 0, truncated toward zero
FDiv(a, b) ==
    LET x == Abs(a)
        y == Abs(b)
    IN Sgn(a) * Sgn(b) * ((x \div y) * Scale + ((x % y) * Scale) \div y)

RECURSIVE IRoot(_, _, _, _)
\* the largest r in lo..hi with r^p <= n (p is 2 or 3), by bisection
IRoot(p, n, lo, hi) ==
    IF lo >= hi THEN lo
    ELSE LET mid == (lo + hi + 1) \div 2
             pw  == IF p = 2 THEN mid * mid ELSE mid * mid * mid
         IN IF pw <= n THEN IRoot(p, n, mid, hi) ELSE IRoot(p, n, lo, mid - 1)

\* sqrt(a) for a >= 0; a large a is scaled by 10 * Scale = (Scale / 10)^2, so
\* that the radicand stays within the integers
FSqrt(a) ==
    IF a <= 2000000 THEN IRoot(2, a * Scale, 0, 46340)
    ELSE (Scale \div 10) * IRoot(2, a \div 10, 0, 46340)

\* a ** (1 / 3) for a >= 0
FCbrt(a) == IRoot(3, a * Scale * Scale, 0, 1290)

\* np.pi
Pi == (355 * Scale) \div 113

\* cos and sin of a real angle 0 <= y <= pi/4, by their Maclaurin polynomials
CosPoly(y) ==
    LET y2 == FMul(y, y)
        y4 == FMul(y2, y2)
        y6 == FMul(y4, y2)
    IN R(1) - y2 \div 2 + y4 \div 24 - y6 \div 720

SinPoly(y) ==
    LET y2 == FMul(y, y)
        y3 == FMul(y2, y)
        y5 == FMul(y3, y2)
        y7 == FMul(y5, y2)
    IN y - y3 \div 6 + y5 \div 120 - y7 \div 5040

\* the angle x reduced to (-pi, pi]
ReduceAngle(x) ==
    LET m == x % (2 * Pi)
    IN IF m > Pi THEN m - 2 * Pi ELSE m

\* cos and sin on the first quadrant, 0 <= y <= pi/2
CosQ(y) == IF 4 * y <= Pi THEN CosPoly(y) ELSE SinPoly(Pi \div 2 - y)

SinQ(y) == IF 4 * y <= Pi THEN SinPoly(y) ELSE CosPoly(Pi \div 2 - y)

\* np.cos
FCos(x) ==
    LET r == Abs(ReduceAngle(x))
    IN IF 2 * r <= Pi THEN CosQ(r) ELSE -CosQ(Pi - r)

\* np.sin
FSin(x) ==
    LET r0 == ReduceAngle(x)
        r  == Abs(r0)
    IN Sgn(r0) * (IF 2 * r <= Pi THEN SinQ(r) ELSE SinQ(Pi - r))

\* np.radians: degrees (an integer number of them) to radians
Radians(deg) == Sgn(deg) * ((Abs(deg) * Pi) \div 180)

(***************************************************************************)
(* Constants (constants.py), in model units                                *)
(***************************************************************************)

\* universal gravitational constant: 0.01
G == 10

\* 1 AU, the unit of length: 1.0
AU == 1000

\* one model hour: 0.1 time units
HOURS == 100

\* one model year: three model hours
YEARS == 3 * HOURS

\* reference masses, the constructor's defaults
SUN_MASS == 90

EARTH_MASS == 10

\* mass of the satellite; must be negligible compared to other masses
SAT_MASS == R(1)

(***************************************************************************)
(* Vectors: a 3-vector of doubles is a triple of reals                     *)
(***************************************************************************)

VAdd(u, v) == <<u[1] + v[1], u[2] + v[2], u[3] + v[3]>>

VSub(u, v) == <<u[1] - v[1], u[2] - v[2], u[3] - v[3]>>

\* scalar * vector
VScale(c, v) == <<FMul(c, v[1]), FMul(c, v[2]), FMul(c, v[3])>>

\* vector / scalar
VDiv(v, c) == <<FDiv(v[1], c), FDiv(v[2], c), FDiv(v[3], c)>>

\* numpy.linalg.norm of one vector
norm(v) == FSqrt(FMul(v[1], v[1]) + FMul(v[2], v[2]) + FMul(v[3], v[3]))

\* np.cross
cross(u, v) ==
    <<FMul(u[2], v[3]) - FMul(u[3], v[2]),
      FMul(u[3], v[1]) - FMul(u[1], v[3]),
      FMul(u[1], v[2]) - FMul(u[2], v[1])>>

\* a unit vector tilted out of the x-y plane
unit_vector_out_of_plane(angle) == <<FCos(angle), FSin(angle), R(1)>>

\* Takes an angle in radians and returns the corresponding unit vector
unit_vector(angle) == <<FCos(angle), FSin(angle), 0>>

(***************************************************************************)
(* Bounds and the values the operations are tried with                     *)
(***************************************************************************)

\* parameter assignments made after construction
MaxAssign == 1

\* the requests of the user that the window's controller lets through
MaxRequests == 2

\* an optional float: None, or a value
None == <<>>

Some(x) == <<x>>

\* what np.empty may hold: memory that was never written
GarbageVecs == {<<111, -222, 333>>, <<-444, 555, 666>>}

\* the values assigned to each attribute; they include values the validators
\* reject (a negative mass, a zero duration or distance, the label L9)
AttrValues ==
    [num_years          |-> {0, 1, 2},
     time_step          |-> {-2, 0, 2},
     perturbation_size  |-> {0, 1},
     perturbation_angle |-> {None, Some(0), Some(90)},
     speed              |-> {0, 1},
     vel_angle          |-> {None, Some(0), Some(90)},
     lagrange_label     |-> {"L1", "L2", "L3", "L4", "L5", "L9"},
     star_mass          |-> {-5, 0, 10, SUN_MASS},
     planet_mass        |-> {-5, 0, EARTH_MASS},
     planet_distance    |-> {0, 1, 2}]

Attributes == DOMAIN AttrValues

\* the arguments constructors are called with
InitValues ==
    [num_years          |-> {0, 1},
     time_step          |-> {2},
     perturbation_size  |-> {0},
     perturbation_angle |-> {None},
     speed              |-> {1},
     vel_angle          |-> {None},
     lagrange_label     |-> {"L4", "L1", "L9"},
     star_mass          |-> {SUN_MASS},
     planet_mass        |-> {EARTH_MASS, -5},
     planet_distance    |-> {1}]

(***************************************************************************)
(* The state                                                               *)
(***************************************************************************)

VARIABLES
    params,                \* the ten validated attributes of the Simulator
    star_pos,              \* the six series: sequences of 3-vectors,
    star_vel,              \*   row k of the program is element k + 1
    planet_pos,
    planet_vel,
    sat_pos,
    sat_vel,
    lagrange_point_trans,  \* the Lagrange point in the centre-of-mass frame
    err,                   \* the exception the last operation raised, or "None"
    lastOp,                \* the last operation and its argument
    ret,                   \* what the last operation returned
    nassign,               \* assignments made so far
    seen,                  \* the trajectories simulate() has returned, by parameters
    alloc,                 \* which array object each of the six series is: a bit
                           \*   per series, flipped when a new array replaces it
    gui                    \* the window and its controller (sim_gui.py)

traj == <<star_pos, star_vel, planet_pos, planet_vel, sat_pos, sat_vel>>

vars == <<params, star_pos, star_vel, planet_pos, planet_vel, sat_pos, sat_vel,
          lagrange_point_trans, err, lastOp, ret, nassign, seen, alloc, gui>>

num_years == params.num_years

time_step == params.time_step

perturbation_size == params.perturbation_size

perturbation_angle == params.perturbation_angle

speed == params.speed

vel_angle == params.vel_angle

lagrange_label == params.lagrange_label

star_mass == params.star_mass

planet_mass == params.planet_mass

planet_distance == params.planet_distance

(***************************************************************************)
(* descriptors.py: the validators                                          *)
(***************************************************************************)

\* a check that lets zero through
is_not_negative(x) == x >= 0

is_positive(x) == x > 0

\* no value check at all: the descriptor's type check alone
is_float_or_int(x) == TRUE

is_non_negative(x) == x >= 0

lagrange_labels == {"L1", "L2", "L3", "L4", "L5"}

\* no value check at all: any string is a label
is_str(x) == TRUE

is_lagrange_label(x) == x \in lagrange_labels

\* the value checks of the descriptor each attribute is declared with
validate(attr, value) ==
    CASE attr \in {"num_years", "planet_distance"} -> is_positive(value)
      [] attr \in {"star_mass", "planet_mass"}    -> is_non_negative(value)
      [] attr = "lagrange_label"                   -> is_lagrange_label(value)
      [] OTHER                                     -> TRUE

Op(name) == [op |-> name, attr |-> "", value |-> None]

(***************************************************************************)
(* sim_gui.py: the window and its controller, before any event             *)
(***************************************************************************)

SIMULATE == "Simulate"

TOGGLE_ANIMATION == "Toggle Animation"

PLOT_CONSERVED == "Plot Conserved Quantities"

\* the three push buttons of the window
Buttons == {SIMULATE, TOGGLE_ANIMATION, PLOT_CONSERVED}

\* the state main() leaves: buttons enabled, nothing plotted, the animation
\* timer stopped, the auto-plot box unchecked, no worker, no event posted
GuiStart ==
    [calculating |-> FALSE,   \* _SimCtrl._calculating
     enabled     |-> Buttons, \* the buttons that are enabled
     timer       |-> FALSE,   \* Plotter.timer is active
     plotted     |-> FALSE,   \* _SimUi._plotted
     autoPlot    |-> FALSE,   \* the Auto Plot Conserved box is checked
     workers     |-> <<>>,    \* the runnables started and not yet ended
     events      |-> <<>>,    \* slot calls posted to the GUI thread, oldest first
     requests    |-> 0,       \* requests of the user that _calculating let through
     conserved   |-> <<>>,    \* what Plotter.get_conserved_quantities stored last
     aborted     |-> FALSE,   \* an exception ended the application
     readMidRun  |-> FALSE]   \* history: the GUI thread has read the buffers
                              \*   while simulate() was executing in a worker

(***************************************************************************)
(* Construction                                                            *)
(***************************************************************************)

\* Simulator(...): every argument is assigned through its descriptor; a
\* rejected argument raises out of the constructor and no object exists.
\* The buffers start with no rows; lagrange_point_trans is np.empty(3).
Init ==
    /\ params \in [num_years          : InitValues.num_years,
                   time_step          : InitValues.time_step,
                   perturbation_size  : InitValues.perturbation_size,
                   perturbation_angle : InitValues.perturbation_angle,
                   speed              : InitValues.speed,
                   vel_angle          : InitValues.vel_angle,
                   lagrange_label     : InitValues.lagrange_label,
                   star_mass          : InitValues.star_mass,
                   planet_mass        : InitValues.planet_mass,
                   planet_distance    : InitValues.planet_distance]
    /\ \A a \in Attributes : validate(a, params[a])
    /\ star_pos = <<>>
    /\ star_vel = <<>>
    /\ planet_pos = <<>>
    /\ planet_vel = <<>>
    /\ sat_pos = <<>>
    /\ sat_vel = <<>>
    /\ lagrange_point_trans \in GarbageVecs
    /\ err = "None"
    /\ lastOp = Op("__init__")
    /\ ret = None
    /\ nassign = 0
    /\ seen = {}
    /\ alloc = <<0, 0, 0, 0, 0, 0>>
    /\ gui = GuiStart

(***************************************************************************)
(* Assignment to a validated attribute                                     *)
(***************************************************************************)

\* an assignment that also drops the trajectory computed for the old parameters
SetAttrInvalidating(attr, value) ==
    /\ nassign < MaxAssign
    /\ nassign' = nassign + 1
    /\ lastOp' = [op |-> "setattr", attr |-> attr, value |-> value]
    /\ ret' = None
    /\ IF validate(attr, value)
       THEN /\ params' = [params EXCEPT ![attr] = value]
            /\ err' = "None"
            /\ star_pos' = <<>>
            /\ star_vel' = <<>>
            /\ planet_pos' = <<>>
            /\ planet_vel' = <<>>
            /\ sat_pos' = <<>>
            /\ sat_vel' = <<>>
       ELSE /\ params' = params
            /\ err' = "ValueError"
            /\ UNCHANGED <<star_pos, star_vel, planet_pos, planet_vel, sat_pos, sat_vel>>
    /\ UNCHANGED <<lagrange_point_trans, seen, alloc, gui>>

\* sim.<attr> = value: the descriptor validates the value and then stores
\* it; a value that fails its check raises ValueError and nothing is stored
SetAttr(attr, value) ==
    /\ nassign < MaxAssign
    /\ nassign' = nassign + 1
    /\ lastOp' = [op |-> "setattr", attr |-> attr, value |-> value]
    /\ ret' = None
    /\ IF validate(attr, value)
       THEN /\ params' = [params EXCEPT ![attr] = value]
            /\ err' = "None"
       ELSE /\ params' = params
            /\ err' = "ValueError"
    /\ UNCHANGED <<star_pos, star_vel, planet_pos, planet_vel, sat_pos, sat_vel,
                   lagrange_point_trans, seen, alloc, gui>>

(***************************************************************************)
(* simulator.py: derived quantities.  Each takes the parameters p.         *)
(***************************************************************************)

\* Time to simulate in seconds
sim_time(p) == p.num_years * YEARS

time_step_in_seconds(p) == p.time_step * HOURS

\* ceil(a / b) for a >= 0, b > 0
Ceil(a, b) == (a + b - 1) \div b

\* the step count rounded down instead of up
num_steps_floor(p) ==
    IF time_step_in_seconds(p) = 0 THEN 0
    ELSE Abs(sim_time(p)) \div Abs(time_step_in_seconds(p))

num_steps(p) ==
    IF time_step_in_seconds(p) = 0 THEN 0
    ELSE Ceil(Abs(sim_time(p)), Abs(time_step_in_seconds(p)))

RECURSIVE linspace_from(_, _, _, _)
linspace_from(k, n, step, stop) ==
    IF k > n THEN <<>>
    ELSE <<(IF k = n /\ n > 0 THEN stop ELSE k * step)>> \o linspace_from(k + 1, n, step, stop)

\* np.linspace(0, sim_time, num_steps + 1)
time_points(p) ==
    LET n == num_steps(p)
    IN linspace_from(0, n, IF n = 0 THEN 0 ELSE FDiv(sim_time(p), R(n)), sim_time(p))

\* the value of a raised exception or of a normal return
Raise(e) == [err |-> e, val |-> None]

Return(v) == [err |-> "None", val |-> v]

\* float / float of Python: ZeroDivisionError for a zero divisor
PyDiv(a, b) == IF b = 0 THEN Raise("ZeroDivisionError") ELSE Return(FDiv(a, b))

calc_lagrange_point(p) ==
    LET planet_distance_meters == p.planet_distance * AU
        ratio == PyDiv(R(p.planet_mass), 3 * R(p.star_mass))
        hill_radius == FMul(planet_distance_meters, FCbrt(ratio.val))
        l3_dist ==
            FDiv(FMul(FDiv(planet_distance_meters * 7, R(12)), R(p.planet_mass)),
                 R(p.star_mass))
    IN IF ratio.err # "None" THEN ratio
       ELSE CASE p.lagrange_label = "L1" ->
                   Return(<<planet_distance_meters - hill_radius, 0, 0>>)
              [] p.lagrange_label = "L2" ->
                   Return(<<planet_distance_meters + hill_radius, 0, 0>>)
              [] p.lagrange_label = "L3" ->
                   Return(<<-planet_distance_meters - l3_dist, 0, 0>>)
              [] p.lagrange_label = "L4" ->
                   Return(VScale(planet_distance_meters, unit_vector(FDiv(Pi, R(3)))))
              [] p.lagrange_label = "L5" ->
                   Return(VScale(planet_distance_meters, unit_vector(-FDiv(Pi, R(3)))))
              [] OTHER -> Raise("ValueError")

\* a dictionary lookup by the label, in degrees: KeyError for any other label
default_perturbation_angle(p) ==
    CASE p.lagrange_label = "L1" -> Return(0)
      [] p.lagrange_label = "L2" -> Return(0)
      [] p.lagrange_label = "L3" -> Return(180)
      [] p.lagrange_label = "L4" -> Return(60)
      [] p.lagrange_label = "L5" -> Return(-60)
      [] OTHER -> Raise("KeyError")

actual_perturbation_angle(p) ==
    IF p.perturbation_angle = None THEN default_perturbation_angle(p)
    ELSE Return(p.perturbation_angle[1])

actual_vel_angle(p) ==
    LET d == default_perturbation_angle(p)
    IN IF p.vel_angle # None THEN Return(p.vel_angle[1])
       ELSE IF d.err # "None" THEN d
       ELSE Return(d.val + 90)

\* src/simulation, class Simulation: "self.perturbation_angle or
\* self.default_perturbation_angle".  Python's or returns its left operand
\* when it is truthy; None and 0.0 are both falsy.
Simulation_actual_perturbation_angle(p) ==
    IF p.perturbation_angle # None /\ p.perturbation_angle[1] # 0
    THEN Return(p.perturbation_angle[1])
    ELSE default_perturbation_angle(p)

\* "self.vel_angle or self.default_perturbation_angle + 90"
Simulation_actual_vel_angle(p) ==
    LET d == default_perturbation_angle(p)
    IN IF p.vel_angle # None /\ p.vel_angle[1] # 0 THEN Return(p.vel_angle[1])
       ELSE IF d.err # "None" THEN d
       ELSE Return(d.val + 90)

calc_period_from_semi_major_axis(semi_major_axis, star_mass_, planet_mass_) ==
    LET a3 == FMul(FMul(semi_major_axis, semi_major_axis), semi_major_axis)
        period_squared ==
            PyDiv(FMul(4 * FMul(Pi, Pi), a3), FMul(G, R(star_mass_) + R(planet_mass_)))
    IN IF period_squared.err # "None" THEN period_squared
       ELSE Return(FSqrt(period_squared.val))

orbital_period(p) ==
    calc_period_from_semi_major_axis(p.planet_distance * AU, p.star_mass, p.planet_mass)

angular_speed(p) ==
    LET T == orbital_period(p)
    IN IF T.err # "None" THEN T ELSE PyDiv(2 * Pi, T.val)

\* the position or velocity of the center of mass of three vectors
\* the centre of mass of the star and the planet alone
calc_center_of_mass_of_two(p, star_v, planet_v, sat_v) ==
    VDiv(VAdd(VScale(R(p.star_mass), star_v), VScale(R(p.planet_mass), planet_v)),
         R(p.star_mass) + R(p.planet_mass))

calc_center_of_mass(p, star_v, planet_v, sat_v) ==
    VDiv(VAdd(VAdd(VScale(R(p.star_mass), star_v), VScale(R(p.planet_mass), planet_v)),
              VScale(SAT_MASS, sat_v)),
         R(p.star_mass) + R(p.planet_mass) + SAT_MASS)

(***************************************************************************)
(* numba_funcs.py: the integrator.  The functions are compiled with        *)
(* numba's default error model, under which a division by zero raises      *)
(* ZeroDivisionError.                                                      *)
(***************************************************************************)

\* sqrt(v . v) ** -3; the power is 1.0 / (n * n * n)
inverse_norm_cubed(vector) ==
    TheOne({PyDiv(R(1), FMul(n, FMul(n, n))) :
              n \in {FSqrt(FMul(vector[1], vector[1]) + FMul(vector[2], vector[2])
                           + FMul(vector[3], vector[3]))}})

\* accelerations in which the satellite, with its mass SAT_MASS, pulls the star
acceleration_with_satellite_pull(G_star, G_planet, planet_to_star, sat_to_star, sat_to_planet, d_planet_to_star_inverse_cubed, d_sat_to_star_inverse_cubed, d_sat_to_planet_inverse_cubed) ==
    LET star_planet_coeff == FMul(G_planet, d_planet_to_star_inverse_cubed.val)
        planet_star_coeff == FMul(G_star, d_planet_to_star_inverse_cubed.val)
        sat_star_coeff    == FMul(G_star, d_sat_to_star_inverse_cubed.val)
        sat_planet_coeff  == FMul(G_planet, d_sat_to_planet_inverse_cubed.val)
        star_sat_coeff    == FMul(FMul(G, SAT_MASS), d_sat_to_star_inverse_cubed.val)
    IN IF \/ d_planet_to_star_inverse_cubed.err # "None"
          \/ d_sat_to_star_inverse_cubed.err # "None"
          \/ d_sat_to_planet_inverse_cubed.err # "None"
       THEN Raise("ZeroDivisionError")
       ELSE Return([star_accel   |-> VSub(VScale(-star_planet_coeff, planet_to_star),
                                          VScale(star_sat_coeff, sat_to_star)),
                    planet_accel |-> VScale(planet_star_coeff, planet_to_star),
                    sat_accel    |-> VAdd(VScale(sat_star_coeff, sat_to_star),
                                          VScale(sat_planet_coeff, sat_to_planet))])

\* the accelerations from the separations and their inverse cubed norms
acceleration_of(G_star, G_planet, planet_to_star, sat_to_star, sat_to_planet, d_planet_to_star_inverse_cubed, d_sat_to_star_inverse_cubed, d_sat_to_planet_inverse_cubed) ==
    LET star_planet_coeff == FMul(G_planet, d_planet_to_star_inverse_cubed.val)
        planet_star_coeff == FMul(G_star, d_planet_to_star_inverse_cubed.val)
        sat_star_coeff    == FMul(G_star, d_sat_to_star_inverse_cubed.val)
        sat_planet_coeff  == FMul(G_planet, d_sat_to_planet_inverse_cubed.val)
    IN IF \/ d_planet_to_star_inverse_cubed.err # "None"
          \/ d_sat_to_star_inverse_cubed.err # "None"
          \/ d_sat_to_planet_inverse_cubed.err # "None"
       THEN Raise("ZeroDivisionError")
       ELSE Return([star_accel   |-> VScale(-star_planet_coeff, planet_to_star),
                    planet_accel |-> VScale(planet_star_coeff, planet_to_star),
                    sat_accel    |-> VAdd(VScale(sat_star_coeff, sat_to_star),
                                          VScale(sat_planet_coeff, sat_to_planet))])

\* the accelerations of the three bodies at the given positions
calc_acceleration(G_star, G_planet, star_p, planet_p, sat_p) ==
    LET planet_to_star == VSub(star_p, planet_p)
        sat_to_star    == VSub(star_p, sat_p)
        sat_to_planet  == VSub(planet_p, sat_p)
    IN TheOne({acceleration_of(G_star, G_planet, planet_to_star, sat_to_star,
                               sat_to_planet, d[1], d[2], d[3]) :
                 d \in {<<inverse_norm_cubed(planet_to_star),
                          inverse_norm_cubed(sat_to_star),
                          inverse_norm_cubed(sat_to_planet)>>}})

\* row k of the program's array arr, and arr with row k written
Row(arr, k) == arr[k + 1]

SetRow(arr, k, v) == [arr EXCEPT ![k + 1] = v]

\* a second half that advances the positions with the old velocities: the
\* explicit scheme x + h * v, which does not retrace its steps
verlet_write_explicit(time_step_, half_time_step, m, k, ip, acc) ==
    IF acc.err # "None" THEN [m EXCEPT !.err = acc.err]
    ELSE [m EXCEPT
            !.star_vel   = SetRow(@, k, VAdd(Row(m.star_vel, k - 1),
                                             VScale(time_step_, acc.val.star_accel))),
            !.planet_vel = SetRow(@, k, VAdd(Row(m.planet_vel, k - 1),
                                             VScale(time_step_, acc.val.planet_accel))),
            !.sat_vel    = SetRow(@, k, VAdd(Row(m.sat_vel, k - 1),
                                             VScale(time_step_, acc.val.sat_accel))),
            !.star_pos   = SetRow(@, k, VAdd(ip.star, VScale(half_time_step,
                                                             Row(m.star_vel, k - 1)))),
            !.planet_pos = SetRow(@, k, VAdd(ip.planet, VScale(half_time_step,
                                                               Row(m.planet_vel, k - 1)))),
            !.sat_pos    = SetRow(@, k, VAdd(ip.sat, VScale(half_time_step,
                                                            Row(m.sat_vel, k - 1))))]

\* the second half of the loop body: row k from row k - 1, the intermediate
\* positions ip and the accelerations acc
verlet_write(time_step_, half_time_step, m, k, ip, acc) ==
    LET star_vel_k   == VAdd(Row(m.star_vel, k - 1), VScale(time_step_, acc.val.star_accel))
        planet_vel_k == VAdd(Row(m.planet_vel, k - 1), VScale(time_step_, acc.val.planet_accel))
        sat_vel_k    == VAdd(Row(m.sat_vel, k - 1), VScale(time_step_, acc.val.sat_accel))
    IN IF acc.err # "None" THEN [m EXCEPT !.err = acc.err]
       ELSE [m EXCEPT
               !.star_vel   = SetRow(@, k, star_vel_k),
               !.planet_vel = SetRow(@, k, planet_vel_k),
               !.sat_vel    = SetRow(@, k, sat_vel_k),
               !.star_pos   = SetRow(@, k, VAdd(ip.star, VScale(half_time_step, star_vel_k))),
               !.planet_pos = SetRow(@, k, VAdd(ip.planet, VScale(half_time_step, planet_vel_k))),
               !.sat_pos    = SetRow(@, k, VAdd(ip.sat, VScale(half_time_step, sat_vel_k)))]

\* a loop body that takes the accelerations at the positions of row k - 1
\* instead of at the intermediate positions
verlet_step_accel_at_row(time_step_, G_star, G_planet, m, k) ==
    LET half_time_step == FMul(Scale \div 2, time_step_)
    IN TheOne({TheOne({verlet_write(time_step_, half_time_step, m, k, ip, acc) :
                         acc \in {calc_acceleration(G_star, G_planet,
                                                    Row(m.star_pos, k - 1),
                                                    Row(m.planet_pos, k - 1),
                                                    Row(m.sat_pos, k - 1))}}) :
                 ip \in {[star   |-> VAdd(Row(m.star_pos, k - 1),
                                          VScale(half_time_step, Row(m.star_vel, k - 1))),
                          planet |-> VAdd(Row(m.planet_pos, k - 1),
                                          VScale(half_time_step, Row(m.planet_vel, k - 1))),
                          sat    |-> VAdd(Row(m.sat_pos, k - 1),
                                          VScale(half_time_step, Row(m.sat_vel, k - 1)))]}})

\* one pass of the loop body of integrate: row k of the six series from row k - 1
verlet_step(time_step_, G_star, G_planet, m, k) ==
    LET half_time_step == FMul(Scale \div 2, time_step_)
    IN TheOne({TheOne({verlet_write(time_step_, half_time_step, m, k, ip, acc) :
                         acc \in {calc_acceleration(G_star, G_planet, ip.star, ip.planet,
                                                    ip.sat)}}) :
                 ip \in {[star   |-> VAdd(Row(m.star_pos, k - 1),
                                          VScale(half_time_step, Row(m.star_vel, k - 1))),
                          planet |-> VAdd(Row(m.planet_pos, k - 1),
                                          VScale(half_time_step, Row(m.planet_vel, k - 1))),
                          sat    |-> VAdd(Row(m.sat_pos, k - 1),
                                          VScale(half_time_step, Row(m.sat_vel, k - 1)))]}})

RECURSIVE integrate_loop(_, _, _, _, _, _)
\* for k in range(first, num_steps + 1), stopping at the first exception
integrate_loop(k, num_steps_, time_step_, G_star, G_planet, m) ==
    IF k > num_steps_ \/ m.err # "None" THEN m
    ELSE TheOne({integrate_loop(k + 1, num_steps_, time_step_, G_star, G_planet, m1) :
                   m1 \in {verlet_step(time_step_, G_star, G_planet, m, k)}})

\* a loop that stops one row early: range(1, num_steps)
integrate_one_row_short(time_step_, num_steps_, star_mass_, planet_mass_, m) ==
    integrate_loop(1, num_steps_ - 1, time_step_,
                   FMul(G, R(star_mass_)), FMul(G, R(planet_mass_)), m)

integrate(time_step_, num_steps_, star_mass_, planet_mass_, m) ==
    integrate_loop(1, num_steps_, time_step_,
                   FMul(G, R(star_mass_)), FMul(G, R(planet_mass_)), m)

(***************************************************************************)
(* simulator.py: simulate().  m is the object's memory: the six series,    *)
(* lagrange_point_trans and the exception raised so far, if any; a step    *)
(* after an exception leaves m as it is.                                   *)
(***************************************************************************)

\* an allocation that gives one of the six arrays a row too many
allocate_arrays_uneven(p, m, g) ==
    LET empty == [i \in 1..(num_steps(p) + 1) |-> g]
    IN [m EXCEPT !.star_pos = empty, !.star_vel = empty, !.planet_pos = empty,
                 !.planet_vel = empty, !.sat_pos = empty,
                 !.sat_vel = [i \in 1..(num_steps(p) + 2) |-> g],
                 !.alloc = [i \in 1..6 |-> 1 - @[i]]]

\* six new arrays of num_steps + 1 rows of never-written memory
allocate_arrays(p, m, g) ==
    LET empty == [i \in 1..(num_steps(p) + 1) |-> g]
    IN [m EXCEPT !.star_pos = empty, !.star_vel = empty, !.planet_pos = empty,
                 !.planet_vel = empty, !.sat_pos = empty, !.sat_vel = empty,
                 !.alloc = [i \in 1..6 |-> 1 - @[i]]]

\* an initialisation that does not reset the star's row 0, so that the in-place
\* shift to the centre-of-mass frame works on whatever the buffer held
initialize_positions_keeping_star(p, m) ==
    LET perturbation_size_  == p.perturbation_size * AU
        angle == actual_perturbation_angle(p)
        perturbation_angle_ == Radians(angle.val)
        perturbation ==
            VScale(perturbation_size_,
                   <<FCos(perturbation_angle_), FSin(perturbation_angle_), 0>>)
        m1 == [m EXCEPT !.planet_pos = SetRow(@, 0, <<p.planet_distance * AU, 0, 0>>)]
        lp == calc_lagrange_point(p)
    IN IF angle.err # "None" THEN [m1 EXCEPT !.err = angle.err]
       ELSE IF lp.err # "None" THEN [m1 EXCEPT !.err = lp.err]
       ELSE [m1 EXCEPT !.sat_pos = SetRow(@, 0, VAdd(lp.val, perturbation))]

initialize_positions(p, m) ==
    LET perturbation_size_  == p.perturbation_size * AU
        angle == actual_perturbation_angle(p)
        perturbation_angle_ == Radians(angle.val)
        perturbation ==
            VScale(perturbation_size_,
                   <<FCos(perturbation_angle_), FSin(perturbation_angle_), 0>>)
        m1 == [m EXCEPT !.star_pos = SetRow(@, 0, <<0, 0, 0>>),
                        !.planet_pos = SetRow(@, 0, <<p.planet_distance * AU, 0, 0>>)]
        lp == calc_lagrange_point(p)
    IN IF angle.err # "None" THEN [m1 EXCEPT !.err = angle.err]
       ELSE IF lp.err # "None" THEN [m1 EXCEPT !.err = lp.err]
       ELSE [m1 EXCEPT !.sat_pos = SetRow(@, 0, VAdd(lp.val, perturbation))]

initialize_velocities(p, m, init_cm_pos) ==
    LET w == angular_speed(p)
        angular_vel == <<0, 0, w.val>>
        planet_vel_0 == cross(angular_vel, VSub(Row(m.planet_pos, 0), init_cm_pos))
        speed_ == FMul(R(p.speed), norm(planet_vel_0))
        angle == actual_vel_angle(p)
        vel_angle_ == Radians(angle.val)
        m1 == [m EXCEPT
                 !.star_vel = SetRow(@, 0, cross(angular_vel,
                                                 VSub(Row(m.star_pos, 0), init_cm_pos))),
                 !.planet_vel = SetRow(@, 0, planet_vel_0)]
    IN IF w.err # "None" THEN [m EXCEPT !.err = w.err]
       ELSE IF angle.err # "None" THEN [m1 EXCEPT !.err = angle.err]
       ELSE [m1 EXCEPT !.sat_vel = SetRow(@, 0, VScale(speed_, unit_vector(vel_angle_)))]

\* a shift to the centre-of-mass frame that leaves lagrange_point_trans as it was
transform_to_cm_ref_frame_keeping_point(p, m, init_cm_pos) ==
    [m EXCEPT
       !.star_pos = SetRow(@, 0, VSub(Row(@, 0), init_cm_pos)),
       !.planet_pos = SetRow(@, 0, VSub(Row(@, 0), init_cm_pos)),
       !.sat_pos = SetRow(@, 0, VSub(Row(@, 0), init_cm_pos))]

transform_to_cm_ref_frame(p, m, init_cm_pos) ==
    LET lp == calc_lagrange_point(p)
    IN IF lp.err # "None" THEN [m EXCEPT !.err = lp.err]
       ELSE [m EXCEPT
               !.star_pos = SetRow(@, 0, VSub(Row(@, 0), init_cm_pos)),
               !.planet_pos = SetRow(@, 0, VSub(Row(@, 0), init_cm_pos)),
               !.sat_pos = SetRow(@, 0, VSub(Row(@, 0), init_cm_pos)),
               !.lagrange_point_trans = VSub(lp.val, init_cm_pos)]

\* the steps of _initialize_arrays after _initialize_positions
initialize_rest(p, m2) ==
    TheOne({TheOne({IF m3.err # "None" THEN m3
                    ELSE transform_to_cm_ref_frame(p, m3, init_cm_pos) :
                      m3 \in {initialize_velocities(p, m2, init_cm_pos)}}) :
              init_cm_pos \in {calc_center_of_mass(p, Row(m2.star_pos, 0),
                                                   Row(m2.planet_pos, 0),
                                                   Row(m2.sat_pos, 0))}})

\* an initialisation that allocates new arrays at every call
initialize_arrays_always_allocating(p, m, g) ==
    TheOne({TheOne({IF m2.err # "None" THEN m2 ELSE initialize_rest(p, m2) :
                      m2 \in {initialize_positions(p, m1)}}) :
              m1 \in {allocate_arrays(p, m, g)}})

\* an initialisation that allocates only while the buffers are empty
initialize_arrays_when_empty(p, m, g) ==
    TheOne({TheOne({IF m2.err # "None" THEN m2 ELSE initialize_rest(p, m2) :
                      m2 \in {initialize_positions(p, m1)}}) :
              m1 \in {IF Len(m.star_pos) = 0 THEN allocate_arrays(p, m, g)
                      ELSE m}})

\* Initializes the arrays of positions and velocities so that their initial
\* values correspond to the input parameters
initialize_arrays(p, m, g) ==
    TheOne({TheOne({IF m2.err # "None" THEN m2 ELSE initialize_rest(p, m2) :
                      m2 \in {initialize_positions(p, m1)}}) :
              m1 \in {IF Len(m.star_pos) # num_steps(p) + 1 THEN allocate_arrays(p, m, g)
                      ELSE m}})

simulate(p, m, g) ==
    TheOne({IF m1.err # "None" THEN m1
            ELSE integrate(time_step_in_seconds(p), num_steps(p), p.star_mass,
                           p.planet_mass, m1) :
              m1 \in {initialize_arrays(p, m, g)}})

\* the object's memory in the current state
Memory ==
    [star_pos |-> star_pos, star_vel |-> star_vel, planet_pos |-> planet_pos,
     planet_vel |-> planet_vel, sat_pos |-> sat_pos, sat_vel |-> sat_vel,
     lagrange_point_trans |-> lagrange_point_trans, err |-> "None", alloc |-> alloc]

\* the memory m becomes the next state's
Store(m) ==
    /\ star_pos' = m.star_pos
    /\ star_vel' = m.star_vel
    /\ planet_pos' = m.planet_pos
    /\ planet_vel' = m.planet_vel
    /\ sat_pos' = m.sat_pos
    /\ sat_vel' = m.sat_vel
    /\ lagrange_point_trans' = m.lagrange_point_trans
    /\ err' = m.err
    /\ alloc' = m.alloc

\* sim.simulate()
Simulate ==
    \E g \in GarbageVecs :
        \E m \in {simulate(params, Memory, g)} :
           /\ Store(m)
           /\ lastOp' = Op("simulate")
           /\ ret' = None
           /\ seen' = IF m.err = "None"
                      THEN seen \cup {[p |-> params,
                                       t |-> <<m.star_pos, m.star_vel, m.planet_pos,
                                               m.planet_vel, m.sat_pos, m.sat_vel>>]}
                      ELSE seen
           /\ UNCHANGED <<params, nassign, gui>>

\* sim._allocate_arrays()
AllocateArrays ==
    \E g \in GarbageVecs : \E m \in {allocate_arrays(params, Memory, g)} :
        /\ Store(m)
        /\ lastOp' = Op("_allocate_arrays")
        /\ ret' = None
        /\ UNCHANGED <<params, nassign, seen, gui>>

(***************************************************************************)
(* The read-only operations                                                *)
(***************************************************************************)

\* an operation that returns r (a value or an exception) and writes nothing
ReadOnly(name, r) ==
    /\ lastOp' = Op(name)
    /\ ret' = r.val
    /\ err' = r.err
    /\ UNCHANGED <<params, star_pos, star_vel, planet_pos, planet_vel, sat_pos,
                   sat_vel, lagrange_point_trans, nassign, seen, alloc, gui>>

NumSteps == \E r \in {Return(num_steps(params))} : ReadOnly("num_steps", r)

TimePoints == \E r \in {Return(time_points(params))} : ReadOnly("time_points", r)

OrbitalPeriod == \E r \in {orbital_period(params)} : ReadOnly("orbital_period", r)

AngularSpeed == \E r \in {angular_speed(params)} : ReadOnly("angular_speed", r)

CalcLagrangePoint ==
    \E r \in {calc_lagrange_point(params)} : ReadOnly("calc_lagrange_point", r)

\* reading sim.actual_perturbation_angle or sim.actual_vel_angle, on the
\* Simulator or on a Simulation (src/simulation) holding the same parameters
ActualAngle ==
    \E class \in {"Simulator", "Simulation"} :
    \E prop \in {"actual_perturbation_angle", "actual_vel_angle"} :
    \E r \in {CASE class = "Simulator" /\ prop = "actual_perturbation_angle" ->
                    actual_perturbation_angle(params)
               [] class = "Simulator" /\ prop = "actual_vel_angle" ->
                    actual_vel_angle(params)
               [] class = "Simulation" /\ prop = "actual_perturbation_angle" ->
                    Simulation_actual_perturbation_angle(params)
               [] class = "Simulation" /\ prop = "actual_vel_angle" ->
                    Simulation_actual_vel_angle(params)} :
        /\ lastOp' = [op |-> prop, attr |-> class, value |-> None]
        /\ ret' = r.val
        /\ err' = r.err
        /\ UNCHANGED <<params, star_pos, star_vel, planet_pos, planet_vel, sat_pos,
                       sat_vel, lagrange_point_trans, nassign, seen, alloc, gui>>

\* numba_funcs.transform_to_corotating: sample i is rotated by -angular_speed *
\* times[i].  The loop runs over the rows of pos_trans and indexes times without
\* a bounds check: past the end of times it reads memory that was never written
\* (the scalar junk).
nb_transform_to_corotating(pos_trans, times, angular_speed_, junk) ==
    [i \in 1..Len(pos_trans) |->
        LET time == IF i <= Len(times) THEN times[i] ELSE junk
            angle == -FMul(angular_speed_, time)
            cos == FCos(angle)
            sin == FSin(angle)
            x == pos_trans[i][1]
            y == pos_trans[i][2]
        IN <<FMul(cos, x) - FMul(sin, y), FMul(sin, x) + FMul(cos, y)>>]

\* Simulator.transform_to_corotating
transform_to_corotating(p, pos_trans, junk) ==
    LET w == angular_speed(p)
    IN IF w.err # "None" THEN w
       ELSE Return(nb_transform_to_corotating(pos_trans, time_points(p),
                       w.val * Sgn(time_step_in_seconds(p)), junk))

\* sim.transform_to_corotating(pos), called with one of the position series
TransformToCorotating ==
    \E pos \in {star_pos, planet_pos, sat_pos} : \E g \in GarbageVecs :
        \E r \in {transform_to_corotating(params, pos, g[1])} :
            ReadOnly("transform_to_corotating", r)

calc_total_linear_momentum(p, m) ==
    [i \in 1..Len(m.star_vel) |->
        VAdd(VAdd(VScale(R(p.star_mass), m.star_vel[i]),
                  VScale(R(p.planet_mass), m.planet_vel[i])),
             VScale(SAT_MASS, m.sat_vel[i]))]

calc_total_angular_momentum(p, m) ==
    [i \in 1..Len(m.star_pos) |->
        VAdd(VAdd(cross(m.star_pos[i], VScale(R(p.star_mass), m.star_vel[i])),
                  cross(m.planet_pos[i], VScale(R(p.planet_mass), m.planet_vel[i]))),
             cross(m.sat_pos[i], VScale(SAT_MASS, m.sat_vel[i])))]

\* a / b of numpy arrays: a zero divisor gives inf or nan (None here) and no
\* exception
NpDiv(a, b) == IF b = 0 THEN None ELSE Some(FDiv(a, b))

\* the sum of numpy values, None (inf, nan) absorbing
NpSum3(a, b, c) ==
    IF a = None \/ b = None \/ c = None THEN None ELSE Some(a[1] + b[1] + c[1])

calc_total_energy(p, m) ==
    [i \in 1..Len(m.star_pos) |->
        LET planet_to_star_distance == norm(VSub(m.star_pos[i], m.planet_pos[i]))
            planet_to_sat_distance  == norm(VSub(m.sat_pos[i], m.planet_pos[i]))
            star_to_sat_distance    == norm(VSub(m.sat_pos[i], m.star_pos[i]))
            pairs ==
                NpSum3(NpDiv(FMul(R(p.star_mass), R(p.planet_mass)), planet_to_star_distance),
                       NpDiv(FMul(SAT_MASS, R(p.planet_mass)), planet_to_sat_distance),
                       NpDiv(FMul(SAT_MASS, R(p.star_mass)), star_to_sat_distance))
            star_vel_magnitude   == norm(m.star_vel[i])
            planet_vel_magnitude == norm(m.planet_vel[i])
            sat_vel_magnitude    == norm(m.sat_vel[i])
            kinetic_energy ==
                FMul(Scale \div 2,
                     FMul(R(p.star_mass), FMul(star_vel_magnitude, star_vel_magnitude))
                     + FMul(R(p.planet_mass), FMul(planet_vel_magnitude, planet_vel_magnitude))
                     + FMul(SAT_MASS, FMul(sat_vel_magnitude, sat_vel_magnitude)))
        IN IF pairs = None THEN None
           ELSE Some(-FMul(G, pairs[1]) + kinetic_energy)]

calc_conserved_quantities(p, m) ==
    <<calc_total_linear_momentum(p, m), calc_total_angular_momentum(p, m),
      calc_total_energy(p, m)>>

\* sim.calc_conserved_quantities()
CalcConservedQuantities ==
    \E r \in {Return(calc_conserved_quantities(params, Memory))} :
        ReadOnly("calc_conserved_quantities", r)

Next ==
    \/ \E attr \in Attributes : \E value \in AttrValues[attr] : SetAttr(attr, value)
    \/ Simulate
    \/ AllocateArrays
    \/ NumSteps
    \/ TimePoints
    \/ OrbitalPeriod
    \/ AngularSpeed
    \/ CalcLagrangePoint
    \/ ActualAngle
    \/ TransformToCorotating
    \/ CalcConservedQuantities

Spec == Init /\ [][Next]_vars


(***************************************************************************)
(* safe_eval.py: the text of an input field is a sequence of characters.   *)
(***************************************************************************)

ALLOWED_CHARS ==
    {"0", "1", "2", "3", "4", "5", "6", "7", "8", "9", ".", "+", "-", "*", "/", "(", ")", "e"}

\* the names of constants.CONSTANTS, in the order of the dict; there is no
\* presets file, so that read_presets() adds no name
constant_names ==
    << <<"G">>, <<"A", "U">>, <<"y", "e", "a", "r", "s">>, <<"h", "o", "u", "r", "s">>,
       <<"s", "u", "n", "_", "m", "a", "s", "s">>,
       <<"e", "a", "r", "t", "h", "_", "m", "a", "s", "s">>,
       <<"m", "o", "o", "n", "_", "m", "a", "s", "s">>,
       <<"j", "u", "p", "i", "t", "e", "r", "_", "m", "a", "s", "s">>,
       <<"s", "u", "n", "_", "e", "a", "r", "t", "h", "_", "d", "i", "s", "t">>,
       <<"s", "u", "n", "_", "j", "u", "p", "i", "t", "e", "r", "_", "d", "i", "s", "t">>,
       <<"e", "a", "r", "t", "h", "_", "m", "o", "o", "n", "_", "d", "i", "s", "t">> >>

RECURSIVE str_replace(_, _)
\* expr.replace(name, ""): the occurrences of name removed, left to right
str_replace(expr, name) ==
    IF Len(expr) < Len(name) THEN expr
    ELSE IF SubSeq(expr, 1, Len(name)) = name
         THEN str_replace(SubSeq(expr, Len(name) + 1, Len(expr)), name)
         ELSE <<expr[1]>> \o str_replace(Tail(expr), name)

RECURSIVE remove_constants_from(_, _)
\* the loop of _remove_constants from the k-th constant name on
remove_constants_from(expr, k) ==
    IF k > Len(constant_names) THEN expr
    ELSE remove_constants_from(str_replace(expr, constant_names[k]), k + 1)

remove_constants(expr) == remove_constants_from(expr, 1)

\* _validate_expr raises ValueError unless this holds
validate_expr(expr) ==
    \E cleaned_expr \in {remove_constants(expr)} :
        {cleaned_expr[i] : i \in 1..Len(cleaned_expr)} \subseteq ALLOWED_CHARS

RECURSIVE lstrip(_)
lstrip(expr) == IF expr # <<>> /\ expr[1] = " " THEN lstrip(Tail(expr)) ELSE expr

RECURSIVE rstrip(_)
rstrip(expr) ==
    IF expr # <<>> /\ expr[Len(expr)] = " "
    THEN rstrip(SubSeq(expr, 1, Len(expr) - 1))
    ELSE expr

\* expr.strip()
strip(expr) == rstrip(lstrip(expr))

\* a Python number (the model's integers stand for the floats) and the one
\* other type of value the texts below evaluate to
Number(n) == [type |-> "float", v |-> n]

Complex == [type |-> "complex", v |-> 0]

\* the texts typed into the fields
TEXT_1 == <<"1", ".", "0">>

TEXT_2 == <<"2", ".", "0">>

TEXT_2_SPACED == <<" ", "2", ".", "0", " ">>

TEXT_0 == <<"0", ".", "0">>

TEXT_MINUS_5 == <<"-", "5">>

TEXT_SUN_MASS == <<"s", "u", "n", "_", "m", "a", "s", "s">>

TEXT_EARTH_MASS == <<"e", "a", "r", "t", "h", "_", "m", "a", "s", "s">>

TEXT_TWO == <<"t", "w", "o">>

TEXT_E == <<"e">>

TEXT_1_PLUS == <<"1", "+">>

TEXT_1_OVER_0 == <<"1", "/", "0">>

TEXT_ROOT_OF_MINUS_1 == <<"(", "-", "1", ")", "*", "*", "0", ".", "5">>

TEXT_2_TO_THE_10000 == <<"2", ".", "0", "*", "*", "1", "0", "0", "0", "0">>

\* Python's eval(expr, all_constants) on these texts: what the interpreter
\* returns or raises for each
py_eval(expr) ==
    CASE expr = TEXT_1 -> Return(Number(1))
      [] expr = TEXT_2 -> Return(Number(2))
      [] expr = TEXT_0 -> Return(Number(0))
      [] expr = TEXT_MINUS_5 -> Return(Number(-5))
      [] expr = TEXT_SUN_MASS -> Return(Number(SUN_MASS))
      [] expr = TEXT_EARTH_MASS -> Return(Number(EARTH_MASS))
         \* name 'e' is not defined
      [] expr = TEXT_E -> Raise("NameError")
         \* invalid syntax
      [] expr = TEXT_1_PLUS -> Raise("SyntaxError")
         \* division by zero
      [] expr = TEXT_1_OVER_0 -> Raise("ZeroDivisionError")
         \* a negative number to a fractional power is a complex number
      [] expr = TEXT_ROOT_OF_MINUS_1 -> Return(Complex)
         \* (34, 'Numerical result out of range')
      [] expr = TEXT_2_TO_THE_10000 -> Raise("OverflowError")

\* safe_eval(expr): None for the empty text, else the number the text
\* evaluates to, or the exception that leaves the function
safe_eval(text) ==
    IF text = <<>> THEN Return(None)
    ELSE TheOne({IF ~validate_expr(expr) THEN Raise("ValueError")
                 ELSE TheOne({IF res.err \in {"NameError", "SyntaxError", "ZeroDivisionError"}
                              THEN Raise("ValueError")
                              ELSE IF res.err # "None" THEN res
                              ELSE IF res.val.type \notin {"int", "float"}
                                   THEN Raise("TypeError")
                                   ELSE Return(Some(res.val.v)) :
                                res \in {py_eval(expr)}}) :
                   expr \in {strip(text)}})

(***************************************************************************)
(* sim_gui.py: _SimUi.getInputs and the assignments of _SimCtrl._simulate. *)
(* A form is the text of every input field; a value is None or Some(n),    *)
(* and the label's value is its text.                                      *)
(***************************************************************************)

\* the attributes in the order of _SimUi.inputFields, which _addInputFields
\* fills: the order getInputs evaluates in and _simulate assigns in
FieldOrder ==
    <<"num_years", "time_step", "star_mass", "planet_mass", "planet_distance",
      "perturbation_size", "perturbation_angle", "speed", "vel_angle", "lagrange_label">>

\* the value of each field, or the exception its evaluation raises
field_values(form) ==
    [a \in Attributes |->
        IF a = "lagrange_label" THEN Return(form[a]) ELSE safe_eval(form[a])]

Min(S) == CHOOSE x \in S : \A y \in S : x <= y

\* getInputs(): a value for every field, or the exception that leaves it, which
\* is that of the first field that fails
getInputs(form) ==
    TheOne({TheOne({IF failing = {} THEN Return([a \in Attributes |-> values[a].val])
                    ELSE TheOne({IF e \in {"ValueError", "TypeError"}
                                 THEN Raise("ValueError")
                                 ELSE Raise(e) :
                                   e \in {values[FieldOrder[Min(failing)]].err}}) :
                      failing \in {{k \in 1..Len(FieldOrder) :
                                      values[FieldOrder[k]].err # "None"}}}) :
              values \in {field_values(form)}})

\* the type check of the attribute's descriptor: float | int, None too for the
\* two angles, str for the label
has_type(attr, value) ==
    CASE attr = "lagrange_label"                          -> TRUE
      [] attr \in {"perturbation_angle", "vel_angle"}     -> TRUE
      [] OTHER                                            -> value # None

\* the attribute's value in params for the Python value
to_param(attr, value) ==
    IF attr \in {"perturbation_angle", "vel_angle", "lagrange_label"} THEN value
    ELSE value[1]

RECURSIVE assign_skipping_from(_, _, _)
\* a loop that goes on to the next attribute after a rejected assignment
assign_skipping_from(p, inputs, k) ==
    IF k > Len(FieldOrder) THEN [params |-> p, err |-> "None"]
    ELSE TheOne({IF ~has_type(a, inputs[a]) \/ ~validate(a, to_param(a, inputs[a]))
                 THEN assign_skipping_from(p, inputs, k + 1)
                 ELSE assign_skipping_from([p EXCEPT ![a] = to_param(a, inputs[a])],
                                           inputs, k + 1) :
                   a \in {FieldOrder[k]}})

RECURSIVE assign_from(_, _, _)
\* the loop of setattr from the k-th attribute on: it stops at the first
\* assignment that raises, the assignments before it made
assign_from(p, inputs, k) ==
    IF k > Len(FieldOrder) THEN [params |-> p, err |-> "None"]
    ELSE TheOne({IF ~has_type(a, inputs[a]) THEN [params |-> p, err |-> "TypeError"]
                 ELSE IF ~validate(a, to_param(a, inputs[a]))
                      THEN [params |-> p, err |-> "ValueError"]
                      ELSE assign_from([p EXCEPT ![a] = to_param(a, inputs[a])],
                                       inputs, k + 1) :
                   a \in {FieldOrder[k]}})

\* assignments that swallow the rejection of a value
assign_inputs_skipping_rejected(p, inputs) == assign_skipping_from(p, inputs, 1)

assign_inputs(p, inputs) == assign_from(p, inputs, 1)

\* the field texts main() leaves, in the model's units
DefaultForm ==
    [num_years          |-> TEXT_1,
     time_step          |-> TEXT_2,
     perturbation_size  |-> TEXT_0,
     perturbation_angle |-> <<>>,
     speed              |-> TEXT_1,
     vel_angle          |-> <<>>,
     lagrange_label     |-> "L4",
     star_mass          |-> TEXT_SUN_MASS,
     planet_mass        |-> TEXT_EARTH_MASS,
     planet_distance    |-> TEXT_1]

\* the forms the user submits: valid ones, and one for each way a field can
\* fail to evaluate or a value can be rejected
Forms ==
    {DefaultForm,
     [DefaultForm EXCEPT !.num_years = TEXT_2_SPACED],
     [DefaultForm EXCEPT !.star_mass = TEXT_0],
     [DefaultForm EXCEPT !.star_mass = TEXT_MINUS_5],
     [DefaultForm EXCEPT !.num_years = TEXT_2, !.planet_distance = TEXT_0],
     [DefaultForm EXCEPT !.speed = <<>>],
     [DefaultForm EXCEPT !.num_years = TEXT_2, !.star_mass = TEXT_TWO],
     [DefaultForm EXCEPT !.perturbation_angle = TEXT_E],
     [DefaultForm EXCEPT !.vel_angle = TEXT_1_PLUS],
     [DefaultForm EXCEPT !.planet_distance = TEXT_1_OVER_0],
     [DefaultForm EXCEPT !.perturbation_size = TEXT_ROOT_OF_MINUS_1],
     [DefaultForm EXCEPT !.time_step = TEXT_2_TO_THE_10000]}

(***************************************************************************)
(* sim_gui.py: _SimCtrl and the worker threads.  A handler of the GUI       *)
(* thread is one action.  A worker is a record of the function it runs,    *)
(* how far it is (pending, running, emitting) and the slots connected to   *)
(* its finished signal that it has not posted yet: emitted from the        *)
(* worker's thread, the signal posts one call per connection to the GUI    *)
(* thread, in the order of the connections.                                *)
(***************************************************************************)

\* simulate() is executing in a worker
SimRunning(g) ==
    \E i \in 1..Len(g.workers) :
        g.workers[i].func = "simulate" /\ g.workers[i].phase = "running"

\* _runInThread(expensiveFunc, onFinishFuncs)
runInThread(g, expensiveFunc, onFinishFuncs) ==
    [g EXCEPT !.workers = Append(@, [func  |-> expensiveFunc,
                                     phase |-> "pending",
                                     slots |-> <<"_enableButtons", "_setCalculatingFalse">>
                                               \o onFinishFuncs]),
              !.calculating = TRUE]

\* _SimCtrl._plotConservedQuantites
plotConservedQuantites(g) ==
    runInThread([g EXCEPT !.enabled = @ \cap {TOGGLE_ANIMATION}],
                "calcConservedQuantities", <<"plotConservedQuantites">>)

\* the GUI thread reads the trajectory buffers
ReadBuffers(g) == [g EXCEPT !.readMidRun = @ \/ SimRunning(g)]

\* Plotter.plot_orbit_inertial_and_corotating(): it draws the three position
\* series, in both frames
plot_orbit_inertial_and_corotating(g) == ReadBuffers(g)

\* a slot connected to a finished signal, called in the GUI thread
slot(g, name) ==
    CASE name = "_enableButtons"       -> [g EXCEPT !.enabled = Buttons]
      [] name = "_setCalculatingFalse" -> [g EXCEPT !.calculating = FALSE]
      [] name = "updateOrbitPlots" ->
            plot_orbit_inertial_and_corotating([g EXCEPT !.plotted = TRUE])
      [] name = "_plotConservedQuantites" -> plotConservedQuantites(g)
      [] name = "plotConservedQuantites" ->
            IF ~g.plotted THEN g ELSE ReadBuffers(g)

RECURSIVE dispatch(_, _)
\* the GUI thread delivers the posted calls evs, oldest first
dispatch(g, evs) ==
    IF evs = <<>> THEN g ELSE dispatch(slot(g, Head(evs)), Tail(evs))

\* the variables of the Simulator that the GUI thread's handlers other than
\* _simulate leave alone
SimulatorVars ==
    <<params, star_pos, star_vel, planet_pos, planet_vel, sat_pos, sat_vel,
      lagrange_point_trans, nassign, seen, alloc>>

\* _SimCtrl._simulate with the fields holding form
RequestSimulate(form) ==
    /\ ~gui.aborted
    /\ ret' = None
    /\ UNCHANGED <<star_pos, star_vel, planet_pos, planet_vel, sat_pos, sat_vel,
                   lagrange_point_trans, nassign, seen, alloc>>
    /\ IF gui.calculating
       THEN /\ lastOp' = Op("_simulate")
            /\ err' = "None"
            /\ UNCHANGED <<params, gui>>
       ELSE /\ gui.requests < MaxRequests
            /\ lastOp' = [op |-> "_simulate", attr |-> "form", value |-> form]
            /\ \E g \in {[gui EXCEPT !.requests = @ + 1]} :
               \E inputs \in {getInputs(form)} :
                 IF inputs.err = "ValueError"
                 THEN /\ err' = "ValueError"
                      /\ params' = params
                      /\ gui' = g
                 ELSE IF inputs.err # "None"
                 THEN \* no handler catches it: the application ends
                      /\ err' = inputs.err
                      /\ params' = params
                      /\ gui' = [g EXCEPT !.aborted = TRUE]
                 ELSE \E assigned \in {assign_inputs(params, inputs.val)} :
                      /\ params' = assigned.params
                      /\ err' = assigned.err
                      /\ gui' = IF assigned.err # "None" THEN g
                                ELSE runInThread(
                                       [g EXCEPT !.timer = FALSE, !.enabled = {}],
                                       "simulate",
                                       <<"updateOrbitPlots">>
                                       \o (IF g.autoPlot
                                           THEN <<"_plotConservedQuantites">>
                                           ELSE <<>>))

\* the Simulate button is clicked
ClickSimulate ==
    /\ SIMULATE \in gui.enabled
    /\ \E form \in Forms : RequestSimulate(form)

\* return is pressed in an input field
ReturnPressed == \E form \in Forms : RequestSimulate(form)

\* a handler of the GUI thread that leaves the Simulator alone and makes g of
\* the window
GuiHandler(name, g) ==
    /\ ~gui.aborted
    /\ gui' = g
    /\ lastOp' = Op(name)
    /\ err' = "None"
    /\ ret' = None
    /\ UNCHANGED SimulatorVars

\* the Auto Plot Conserved box is checked or unchecked
ToggleAutoPlot == GuiHandler("autoPlotConserved", [gui EXCEPT !.autoPlot = ~@])

\* the Toggle Animation button is clicked: _SimUi.toggleAnimation
ClickToggleAnimation ==
    /\ TOGGLE_ANIMATION \in gui.enabled
    /\ GuiHandler("_toggleAnimation",
                  IF ~gui.plotted THEN gui ELSE [gui EXCEPT !.timer = ~@])

\* the Plot Conserved Quantities button is clicked
ClickPlotConserved ==
    /\ PLOT_CONSERVED \in gui.enabled
    /\ gui.requests < MaxRequests
    /\ GuiHandler("_plotConservedQuantites",
                  plotConservedQuantites([gui EXCEPT !.requests = @ + 1]))

\* the animation timer fires: animate_plot draws a row of the series
TimerTimeout ==
    /\ gui.timer
    /\ GuiHandler("animate_plot", ReadBuffers(gui))

\* the GUI thread delivers the calls posted so far
DispatchEvents ==
    /\ gui.events # <<>>
    /\ GuiHandler("finished", dispatch([gui EXCEPT !.events = <<>>], gui.events))

\* worker i with its phase and slots changed
WithWorker(g, i, phase, slots) ==
    [g EXCEPT !.workers[i].phase = phase, !.workers[i].slots = slots]

\* the rows the integrator can write: numba checks no index, and a step
\* count beyond the arrays (the parameters were assigned after the arrays
\* were allocated) writes outside them
RowsToIntegrate == IF num_steps(params) < Len(star_pos) THEN num_steps(params)
                   ELSE Len(star_pos) - 1

\* a pending worker starts its function: simulate() begins with
\* _initialize_arrays; an exception ends the worker, and the application
WorkerBegin(i) ==
    /\ ~gui.aborted
    /\ i \in 1..Len(gui.workers)
    /\ gui.workers[i].phase = "pending"
    /\ lastOp' = Op("run")
    /\ ret' = None
    /\ UNCHANGED <<params, nassign, seen>>
    /\ IF gui.workers[i].func = "simulate"
       THEN \E g \in GarbageVecs : \E m \in {initialize_arrays(params, Memory, g)} :
               /\ Store(m)
               /\ gui' = IF m.err # "None" THEN [gui EXCEPT !.aborted = TRUE]
                         ELSE WithWorker(gui, i, "running", gui.workers[i].slots)
       ELSE /\ gui' = WithWorker(gui, i, "running", gui.workers[i].slots)
            /\ err' = "None"
            /\ UNCHANGED <<star_pos, star_vel, planet_pos, planet_vel, sat_pos, sat_vel,
                           lagrange_point_trans, alloc>>

\* a running worker's function returns: simulate() ends with _integrate, which
\* reads the parameters when it is called; calcConservedQuantities stores the
\* three series.  The worker then emits finished.
WorkerEnd(i) ==
    /\ ~gui.aborted
    /\ i \in 1..Len(gui.workers)
    /\ gui.workers[i].phase = "running"
    /\ lastOp' = Op("run")
    /\ ret' = None
    /\ UNCHANGED <<params, nassign, seen>>
    /\ IF gui.workers[i].func = "simulate"
       THEN \E m \in {integrate(time_step_in_seconds(params), RowsToIntegrate,
                                star_mass, planet_mass, Memory)} :
            \E crash \in {FALSE, num_steps(params) >= Len(star_pos)} :
               /\ Store(m)
               /\ gui' = IF m.err # "None" \/ crash THEN [gui EXCEPT !.aborted = TRUE]
                         ELSE WithWorker(gui, i, "emitting", gui.workers[i].slots)
       ELSE /\ gui' = [WithWorker(gui, i, "emitting", gui.workers[i].slots)
                         EXCEPT !.conserved = calc_conserved_quantities(params, Memory)]
            /\ err' = "None"
            /\ UNCHANGED <<star_pos, star_vel, planet_pos, planet_vel, sat_pos, sat_vel,
                           lagrange_point_trans, alloc>>

\* the sequence s without its i-th element
Without(s, i) == SubSeq(s, 1, i - 1) \o SubSeq(s, i + 1, Len(s))

\* an emitting worker posts the call of the next connected slot to the GUI
\* thread; after the last one the runnable is gone
WorkerEmit(i) ==
    /\ ~gui.aborted
    /\ i \in 1..Len(gui.workers)
    /\ gui.workers[i].phase = "emitting"
    /\ lastOp' = Op("emit")
    /\ ret' = None
    /\ err' = "None"
    /\ UNCHANGED SimulatorVars
    /\ \E slots \in {gui.workers[i].slots} :
        \E g \in {[gui EXCEPT !.events = Append(@, Head(slots))]} :
          gui' = IF Len(slots) = 1 THEN [g EXCEPT !.workers = Without(@, i)]
                 ELSE WithWorker(g, i, "emitting", Tail(slots))

\* the parameters of Simulator(), which main() constructs, in the model's units
DefaultParams ==
    [num_years          |-> 1,
     time_step          |-> 2,
     perturbation_size  |-> 0,
     perturbation_angle |-> None,
     speed              |-> 1,
     vel_angle          |-> None,
     lagrange_label     |-> "L4",
     star_mass          |-> SUN_MASS,
     planet_mass        |-> EARTH_MASS,
     planet_distance    |-> 1]

\* main(): the window on a Simulator with the default parameters
GuiInit == Init /\ params = DefaultParams

GuiNext ==
    \/ ClickSimulate
    \/ ReturnPressed
    \/ ToggleAutoPlot
    \/ ClickToggleAnimation
    \/ ClickPlotConserved
    \/ TimerTimeout
    \/ DispatchEvents
    \/ \E i \in 1..Len(gui.workers) : WorkerBegin(i)
    \/ \E i \in 1..Len(gui.workers) : WorkerEnd(i)
    \/ \E i \in 1..Len(gui.workers) : WorkerEmit(i)

GuiSpec == GuiInit /\ [][GuiNext]_vars


(***************************************************************************)
(* numba_funcs.py: the prange loop of transform_to_corotating, one          *)
(* iteration at a time.  numba hands the iterations to its threads in an    *)
(* order the program does not choose; here any iteration still to run may   *)
(* be the next one to complete.  While the loop runs, ret holds the call's  *)
(* memory: the two arguments pos_trans and times, angular_speed, the array  *)
(* pos_corotating and the iterations still to run.                          *)
(***************************************************************************)

\* the body of the loop with the iteration's row written to its neighbour too
prange_body_writing_next(mem, times, angular_speed_, junk, i) ==
    LET time == IF i <= Len(times) THEN times[i] ELSE junk
        angle == -FMul(angular_speed_, time)
        cos == FCos(angle)
        sin == FSin(angle)
        x == mem.pos_trans[i][1]
        y == mem.pos_trans[i][2]
        out == <<FMul(cos, x) - FMul(sin, y), FMul(sin, x) + FMul(cos, y)>>
    IN [mem EXCEPT !.pos_corotating =
            [j \in 1..Len(@) |-> IF j \in {i, i + 1} THEN out ELSE @[j]]]

\* the body of the loop, iteration i: it reads times[i] and row i of
\* pos_trans and writes the two components of row i of pos_corotating
prange_body(mem, times, angular_speed_, junk, i) ==
    LET time == IF i <= Len(times) THEN times[i] ELSE junk
        angle == -FMul(angular_speed_, time)
        cos == FCos(angle)
        sin == FSin(angle)
        x == mem.pos_trans[i][1]
        y == mem.pos_trans[i][2]
    IN [mem EXCEPT !.pos_corotating[i] =
            <<FMul(cos, x) - FMul(sin, y), FMul(sin, x) + FMul(cos, y)>>]

\* sim.transform_to_corotating(pos) up to the loop: angular_speed and the
\* time points are computed, pos_corotating is np.empty((num_steps, 2))
CorotatingCall ==
    /\ lastOp.op # "prange"
    /\ \E pos \in {star_pos, planet_pos, sat_pos} : \E g \in GarbageVecs :
         \E w \in {angular_speed(params)} :
            IF w.err # "None"
            THEN ReadOnly("transform_to_corotating", w)
            ELSE /\ lastOp' = Op("prange")
                 /\ ret' = [pos_trans |-> pos,
                            times |-> time_points(params),
                            angular_speed |-> w.val * Sgn(time_step_in_seconds(params)),
                            junk |-> g[1],
                            pos_corotating |-> [i \in 1..Len(pos) |-> <<g[2], g[3]>>],
                            todo |-> 1..Len(pos)]
                 /\ err' = "None"
                 /\ UNCHANGED <<params, star_pos, star_vel, planet_pos, planet_vel,
                                sat_pos, sat_vel, lagrange_point_trans, nassign,
                                seen, alloc, gui>>

\* one iteration completes, any of those still to run
CorotatingIteration ==
    /\ lastOp.op = "prange"
    /\ \E i \in ret.todo :
         ret' = [prange_body(ret, ret.times, ret.angular_speed, ret.junk, i)
                    EXCEPT !.todo = @ \ {i}]
    /\ UNCHANGED <<params, star_pos, star_vel, planet_pos, planet_vel, sat_pos,
                   sat_vel, lagrange_point_trans, err, lastOp, nassign, seen,
                   alloc, gui>>

\* every iteration has completed: return pos_corotating
CorotatingReturn ==
    /\ lastOp.op = "prange"
    /\ ret.todo = {}
    /\ ReadOnly("transform_to_corotating", Return(ret.pos_corotating))

\* the caller's thread is inside the call until the loop has returned
CorotNext ==
    \/ /\ lastOp.op # "prange"
       /\ \E attr \in Attributes : \E value \in AttrValues[attr] : SetAttr(attr, value)
    \/ /\ lastOp.op # "prange"
       /\ Simulate
    \/ CorotatingCall
    \/ CorotatingIteration
    \/ CorotatingReturn

CorotSpec == Init /\ [][CorotNext]_vars

(***************************************************************************)
(* orbit_plotter.py and sim_gui.py: two functions of the window that need   *)
(* no trajectory, Plotter.array_step and _SimCtrl._applyPreset.  They are   *)
(* run on a window whose Simulator holds long runs (array_step reads only   *)
(* sim.num_steps) and whose input fields hold the texts main() leaves.      *)
(***************************************************************************)

\* the frames of _applyPreset Python lets nest before it raises
\* RecursionError (sys.getrecursionlimit() in the program)
RecursionLimit == 4

\* int((num_steps + 1) / num_points_to_plot) or 1: the quotient of two
\* positive numbers truncated, and 1 where that is 0
array_step(p, num_points_to_plot) ==
    LET points_plotted_step == (num_steps(p) + 1) \div num_points_to_plot
    IN IF points_plotted_step = 0 THEN 1 ELSE points_plotted_step

\* plot_conserved_quantities up to its slices: arr_step = self.array_step(),
\* and the rows time_points_in_years()[::arr_step] keeps, which are the rows
\* 0, arr_step, 2 * arr_step, ... below num_steps + 1
ArrayStep ==
    \E arr_step \in {array_step(params, 100000)} :
        ReadOnly("array_step",
                 Return([arr_step |-> arr_step,
                         rows |-> Ceil(num_steps(params) + 1, arr_step)]))

\* the tables read_presets() returns: for every preset its bases and its own
\* values, all of them strings.  Every base names a preset of the table.
PresetTables ==
    {[A |-> [bases |-> <<>>, values |-> [num_years |-> TEXT_2, speed |-> TEXT_0]],
      B |-> [bases |-> <<"A">>, values |-> [num_years |-> TEXT_1]],
      C |-> [bases |-> <<"A", "B">>, values |-> [star_mass |-> TEXT_EARTH_MASS]]],
     [A |-> [bases |-> <<>>, values |-> [speed |-> TEXT_0]],
      B |-> [bases |-> <<>>, values |-> [speed |-> TEXT_2]],
      C |-> [bases |-> <<"B", "A">>, values |-> [time_step |-> TEXT_1]]],
     [A |-> [bases |-> <<"B">>, values |-> [num_years |-> TEXT_2]],
      B |-> [bases |-> <<"A">>, values |-> [speed |-> TEXT_0]],
      C |-> [bases |-> <<>>, values |-> [speed |-> TEXT_2]]],
     [A |-> [bases |-> <<"A">>, values |-> [num_years |-> TEXT_2]],
      B |-> [bases |-> <<>>, values |-> [speed |-> TEXT_0]],
      C |-> [bases |-> <<"B">>, values |-> [speed |-> TEXT_2]]]}

RECURSIVE applyPreset(_, _, _, _, _)
\* _applyPreset(presetName) from its k-th base on, in frame number depth:
\* each base is applied by a call of its own, then the preset's own values
\* are written to their fields.  The texts set before an exception stay.
applyPreset(presets, presetName, k, fields, depth) ==
    IF depth > RecursionLimit THEN [err |-> "RecursionError", fields |-> fields]
    ELSE IF k <= Len(presets[presetName].bases)
    THEN TheOne({IF r.err # "None" THEN r
                 ELSE applyPreset(presets, presetName, k + 1, r.fields, depth) :
                   r \in {applyPreset(presets, presets[presetName].bases[k], 1,
                                      fields, depth + 1)}})
    ELSE [err |-> "None",
          fields |-> [a \in DOMAIN fields |->
                        IF a \in DOMAIN presets[presetName].values
                        THEN presets[presetName].values[a] ELSE fields[a]]]

\* the user picks a preset in the preset box: _applySelectedPreset.  An
\* exception that leaves the slot ends the application.
ApplySelectedPreset ==
    /\ ~gui.aborted
    /\ \E presets \in PresetTables : \E presetName \in DOMAIN presets :
         \E r \in {applyPreset(presets, presetName, 1, gui.inputFields, 1)} :
            /\ gui' = [gui EXCEPT !.inputFields = r.fields,
                                  !.aborted = (r.err # "None")]
            /\ lastOp' = [op |-> "_applyPreset", attr |-> presetName, value |-> presets]
            /\ err' = r.err
            /\ ret' = None
    /\ UNCHANGED <<params, star_pos, star_vel, planet_pos, planet_vel, sat_pos,
                   sat_vel, lagrange_point_trans, nassign, seen, alloc>>

\* a window on a Simulator constructed for a long run, nothing simulated yet
WidgetInit ==
    /\ params \in {[DefaultParams EXCEPT !.num_years = y, !.time_step = h] :
                     y \in {1, 2, 33333, 33334, 50000, 66666, 66667, 100000, 200000},
                     h \in {-1, 1, 2}}
    /\ star_pos = <<>>
    /\ star_vel = <<>>
    /\ planet_pos = <<>>
    /\ planet_vel = <<>>
    /\ sat_pos = <<>>
    /\ sat_vel = <<>>
    /\ lagrange_point_trans \in GarbageVecs
    /\ err = "None"
    /\ lastOp = Op("__init__")
    /\ ret = None
    /\ nassign = 0
    /\ seen = {}
    /\ alloc = <<0, 0, 0, 0, 0, 0>>
    /\ gui = [f \in DOMAIN GuiStart \cup {"inputFields"} |->
                IF f = "inputFields" THEN DefaultForm ELSE GuiStart[f]]

WidgetSpec == WidgetInit /\ [][ArrayStep \/ ApplySelectedPreset]_vars

(***************************************************************************)
(* The properties                                                          *)
(***************************************************************************)

\* the six series all have n rows
AllLen(n) ==
    /\ Len(star_pos) = n
    /\ Len(star_vel) = n
    /\ Len(planet_pos) = n
    /\ Len(planet_vel) = n
    /\ Len(sat_pos) = n
    /\ Len(sat_vel) = n

\* simulate() was the last operation and it returned
Simulated == lastOp.op = "simulate" /\ err = "None"

\* C1: when simulate() returns, each of the six series has num_steps + 1
\* rows, num_steps being computed from the parameters current at that call
\* (an assignment between two runs changes the length the second run leaves).
C1_LengthAfterSimulate == Simulated => AllLen(num_steps(params) + 1)

\* a second run, after an assignment that changed the number of steps to 3,
\* has left four rows
C1_Witness ==
    /\ Simulated
    /\ nassign = 1
    /\ Cardinality(seen) = 2
    /\ num_steps(params) = 3
    /\ AllLen(4)

\* the memory of a newly constructed object whose never-written memory holds g
Fresh(g) ==
    [star_pos |-> <<>>, star_vel |-> <<>>, planet_pos |-> <<>>, planet_vel |-> <<>>,
     sat_pos |-> <<>>, sat_vel |-> <<>>, lagrange_point_trans |-> g, err |-> "None",
     alloc |-> <<0, 0, 0, 0, 0, 0>>]

\* C2: simulate() is deterministic and history-independent: all the runs
\* made with the same parameters returned the same trajectory, and the
\* trajectory a run leaves is the one a newly constructed object with the
\* same parameters computes, whatever the buffers held before.
C2_HistoryIndependent ==
    /\ \A e1 \in seen : \A e2 \in seen : e1.p = e2.p => e1.t = e2.t
    /\ Simulated =>
         \A g \in GarbageVecs : \E m \in {simulate(params, Fresh(g), g)} :
             /\ m.err = "None"
             /\ traj = <<m.star_pos, m.star_vel, m.planet_pos, m.planet_vel,
                         m.sat_pos, m.sat_vel>>
             /\ lagrange_point_trans = m.lagrange_point_trans

\* a run that reused the buffers an earlier run with other parameters filled
C2_Witness ==
    /\ Simulated
    /\ Cardinality(seen) = 2
    /\ \A e \in seen : Len(e.t[1]) = Len(star_pos)
    /\ Len(star_pos) > 1

\* the value breaks the constraint the specification states for the attribute
ViolatesConstraint(attr, value) ==
    \/ attr \in {"num_years", "planet_distance"} /\ value <= 0
    \/ attr \in {"star_mass", "planet_mass"} /\ value < 0
    \/ attr = "lagrange_label" /\ value \notin {"L1", "L2", "L3", "L4", "L5"}

\* C3: an assignment of a value that violates the attribute's constraint
\* fails with the validation error (ValueError in the program), and neither
\* that parameter nor any other changes.
C3_RejectedAssignment ==
    [][(lastOp'.op = "setattr" /\ ViolatesConstraint(lastOp'.attr, lastOp'.value))
         => (err' = "ValueError" /\ params' = params)]_vars

\* planet_mass = -5 was refused and planet_mass is what it was
C3_Witness ==
    /\ lastOp = [op |-> "setattr", attr |-> "planet_mass", value |-> -5]
    /\ err = "ValueError"
    /\ planet_mass = EARTH_MASS

\* C4: in every reachable state of a constructed Simulator num_years > 0,
\* planet_distance > 0, star_mass >= 0, planet_mass >= 0 and lagrange_label
\* is one of L1..L5.
C4_ParametersValid ==
    /\ num_years > 0
    /\ planet_distance > 0
    /\ star_mass >= 0
    /\ planet_mass >= 0
    /\ lagrange_label \in {"L1", "L2", "L3", "L4", "L5"}

\* num_years = 0 was tried after construction and num_years is still positive
C4_Witness ==
    /\ lastOp = [op |-> "setattr", attr |-> "num_years", value |-> 0]
    /\ err = "ValueError"
    /\ num_years > 0

\* C5, as claimed: for every accepted parameter set simulate() returns
\* normally.  It does not: with star_mass = 0 the Hill radius divides by
\* 3 * star_mass and simulate() ends in ZeroDivisionError.
C5_SimulateAlwaysReturns == lastOp.op = "simulate" => err = "None"

\* simulate() with the accepted star_mass = 0 raised
C5_Witness ==
    /\ lastOp.op = "simulate"
    /\ star_mass = 0
    /\ err = "ZeroDivisionError"

\* the label L9 was the last value assigned
AssignedL9 == lastOp = [op |-> "setattr", attr |-> "lagrange_label", value |-> "L9"]

\* C6, as claimed: the label L9 is accepted by the assignment and it is
\* calc_lagrange_point() that fails, with the configuration error.
C6_AcceptedUntilGeometry ==
    /\ AssignedL9 => (err = "None" /\ lagrange_label = "L9")
    /\ (lastOp.op = "calc_lagrange_point" /\ lagrange_label = "L9") => err = "ValueError"

\* C6, amended: the assignment of L9 is itself refused with ValueError and
\* the label stays one of L1..L5, so calc_lagrange_point() never reaches its
\* invalid-label branch: it never raises ValueError.
C6_RejectedAtAssignment ==
    /\ AssignedL9 => (err = "ValueError" /\ lagrange_label \in {"L1", "L2", "L3", "L4", "L5"})
    /\ lastOp.op = "calc_lagrange_point" => err # "ValueError"

\* L9 was assigned to an object labelled L4: refused, the label is still L4
C6_Witness ==
    /\ AssignedL9
    /\ err = "ValueError"
    /\ lagrange_label = "L4"

\* C7: the six series have the same length in every state between
\* operations.
C7_EqualLengths == AllLen(Len(star_pos))

\* a direct _allocate_arrays() after an assignment that changed the number of
\* steps: four rows in each
C7_Witness ==
    /\ lastOp.op = "_allocate_arrays"
    /\ nassign = 1
    /\ num_steps(params) = 3
    /\ AllLen(4)

\* C8: assignments (accepted or rejected), the accessors num_steps,
\* time_points, orbital_period, angular_speed and calc_lagrange_point,
\* transform_to_corotating and calc_conserved_quantities leave the six series
\* and lagrange_point_trans unchanged; of the public operations only
\* simulate() changes them (its private step _allocate_arrays, called
\* directly, replaces the buffers too).
C8_OnlySimulateMutates ==
    [][lastOp'.op \in {"setattr", "num_steps", "time_points", "orbital_period",
                       "angular_speed", "calc_lagrange_point",
                       "transform_to_corotating", "calc_conserved_quantities"}
         => UNCHANGED <<traj, lagrange_point_trans>>]_vars

\* an accepted assignment after a run: the run's trajectory is still there
C8_Witness ==
    /\ lastOp.op = "setattr"
    /\ err = "None"
    /\ Len(star_pos) > 1
    /\ \E e \in seen : e.t = traj /\ e.p # params

\* the last row of the array arr, as row 0 of an array of the same length
FromEnd(arr) == [i \in 1..Len(arr) |-> IF i = 1 THEN arr[Len(arr)] ELSE <<0, 0, 0>>]

\* integrate() run with the negated time step from the last row of the series
BackwardRun ==
    integrate(-time_step_in_seconds(params), num_steps(params), star_mass, planet_mass,
              [Memory EXCEPT !.star_pos = FromEnd(@), !.star_vel = FromEnd(@),
                             !.planet_pos = FromEnd(@), !.planet_vel = FromEnd(@),
                             !.sat_pos = FromEnd(@), !.sat_vel = FromEnd(@)])

\* arr is rev read from its last row to its first
IsReverse(arr, rev) ==
    /\ Len(arr) = Len(rev)
    /\ \A i \in 1..Len(arr) : arr[i] = rev[Len(arr) + 1 - i]

\* C9: the integrator is time-reversible: integrating with the time step -h
\* from the last row of a run made with h restores, step by step, the rows
\* of that run in reverse order, for the positions and velocities of all
\* three bodies.
C9_TimeReversible ==
    Simulated =>
        \E b \in {BackwardRun} :
            /\ b.err = "None"
            /\ IsReverse(b.star_pos, star_pos)
            /\ IsReverse(b.star_vel, star_vel)
            /\ IsReverse(b.planet_pos, planet_pos)
            /\ IsReverse(b.planet_vel, planet_vel)
            /\ IsReverse(b.sat_pos, sat_pos)
            /\ IsReverse(b.sat_vel, sat_vel)

\* a run of three steps in which the satellite moved at every step
C9_Witness ==
    /\ Simulated
    /\ Len(sat_pos) = 4
    /\ \A i \in 1..3 : sat_pos[i] # sat_pos[i + 1]
    /\ star_mass > 0
    /\ planet_mass > 0

\* planet_distance * AU * (cos a, sin a, 0), a in degrees
AtAngle(deg) ==
    VScale(planet_distance * AU, <<FCos(Radians(deg)), FSin(Radians(deg)), 0>>)

\* C10, as claimed: for L4 calc_lagrange_point() returns planet_distance * AU
\* * (cos 60, sin 60, 0) for every validated pair of masses, and for L5 the
\* mirror image.  It does not for star_mass = 0: the Hill radius is computed
\* before the label is looked at, and its division raises.
C10_EquilateralPoints ==
    /\ (lastOp.op = "calc_lagrange_point" /\ lagrange_label = "L4")
         => (err = "None" /\ ret = AtAngle(60))
    /\ (lastOp.op = "calc_lagrange_point" /\ lagrange_label = "L5")
         => (err = "None" /\ ret = AtAngle(-60))

\* calc_lagrange_point() for L4 with the accepted star_mass = 0 raised
C10_Witness ==
    /\ lastOp.op = "calc_lagrange_point"
    /\ lagrange_label = "L4"
    /\ star_mass = 0
    /\ err = "ZeroDivisionError"

\* C16: simulate() replaces the six arrays if and only if the allocated
\* length differs from num_steps + 1 when it is called: with an unchanged
\* step count all six array objects are kept, whatever else changed, and
\* with a changed step count all six are replaced.
C16_ReallocatesIffLengthDiffers ==
    [][lastOp'.op = "simulate"
         => IF Len(star_pos) # num_steps(params) + 1
            THEN \A i \in 1..6 : alloc'[i] # alloc[i]
            ELSE alloc' = alloc]_vars

\* a second run, made after star_mass changed, in the arrays the first run
\* allocated
C16_Witness ==
    /\ Simulated
    /\ Cardinality(seen) = 2
    /\ star_mass # SUN_MASS
    /\ \A e \in seen : Len(e.t[1]) = Len(star_pos)
    /\ alloc = <<1, 1, 1, 1, 1, 1>>

\* ceil(|a / b|) for b # 0, from its definition: the least n with n * |b| >= |a|
CeilOfRatio(a, b) ==
    CHOOSE n \in 0..Abs(a) :
        /\ n * Abs(b) >= Abs(a)
        /\ n = 0 \/ (n - 1) * Abs(b) < Abs(a)

\* C17: num_steps is ceil(|sim_time / time_step_in_seconds|), with sim_time
\* = num_years * YEARS, for a nonzero time step of either sign, and 0 for
\* the time step 0; simulate() then leaves a single row, the initial state
\* that _initialize_arrays computes, and the integrator's loop adds nothing.
C17_NumSteps ==
    /\ time_step # 0 =>
         num_steps(params) = CeilOfRatio(num_years * YEARS, time_step * HOURS)
    /\ time_step = 0 => num_steps(params) = 0
    /\ (Simulated /\ time_step = 0) =>
         /\ AllLen(1)
         /\ \A g \in GarbageVecs : \E m \in {initialize_arrays(params, Fresh(g), g)} :
                traj = <<m.star_pos, m.star_vel, m.planet_pos, m.planet_vel,
                         m.sat_pos, m.sat_vel>>

\* a run with the time step 0, made after a run of several steps
C17_Witness ==
    /\ Simulated
    /\ time_step = 0
    /\ AllLen(1)
    /\ \E e \in seen : Len(e.t[1]) > 1

\* the position of a body half a step after row k - 1
PosHalf(pos, vel, k) ==
    VAdd(Row(pos, k - 1),
         VScale(FMul(Scale \div 2, time_step_in_seconds(params)), Row(vel, k - 1)))

\* row k of a body's velocity and position follow from its row k - 1, its
\* acceleration accel at the half-step positions and the time step
StepOf(pos, vel, k, accel) ==
    /\ Row(vel, k) = VAdd(Row(vel, k - 1), VScale(time_step_in_seconds(params), accel))
    /\ Row(pos, k) = VAdd(PosHalf(pos, vel, k),
                          VScale(FMul(Scale \div 2, time_step_in_seconds(params)),
                                 Row(vel, k)))

\* C18: in the trajectory simulate() leaves, every row k in 1..num_steps of
\* each of the three bodies is pos_half = pos[k-1] + vel[k-1]*(dt/2),
\* vel[k] = vel[k-1] + accel(pos_half of all bodies)*dt and
\* pos[k] = pos_half + vel[k]*(dt/2), a function of row k - 1 alone, and
\* row 0 is still the initial state that _initialize_arrays wrote.
C18_VerletStep ==
    Simulated =>
      /\ \A k \in 1..num_steps(params) :
           \E acc \in {calc_acceleration(FMul(G, R(star_mass)), FMul(G, R(planet_mass)),
                                         PosHalf(star_pos, star_vel, k),
                                         PosHalf(planet_pos, planet_vel, k),
                                         PosHalf(sat_pos, sat_vel, k))} :
               /\ acc.err = "None"
               /\ StepOf(star_pos, star_vel, k, acc.val.star_accel)
               /\ StepOf(planet_pos, planet_vel, k, acc.val.planet_accel)
               /\ StepOf(sat_pos, sat_vel, k, acc.val.sat_accel)
      /\ \A g \in GarbageVecs : \E m \in {initialize_arrays(params, Fresh(g), g)} :
             /\ Row(star_pos, 0) = Row(m.star_pos, 0)
             /\ Row(star_vel, 0) = Row(m.star_vel, 0)
             /\ Row(planet_pos, 0) = Row(m.planet_pos, 0)
             /\ Row(planet_vel, 0) = Row(m.planet_vel, 0)
             /\ Row(sat_pos, 0) = Row(m.sat_pos, 0)
             /\ Row(sat_vel, 0) = Row(m.sat_vel, 0)

\* a run of three steps in which the satellite moved at every step
C18_Witness ==
    /\ Simulated
    /\ num_steps(params) = 3
    /\ \A k \in 1..3 : Row(sat_pos, k) # Row(sat_pos, k - 1)
    /\ Row(star_vel, 3) # Row(star_vel, 0)

\* other row-0 states of the satellite
OtherSatStates ==
    {[pos |-> <<0, 2000, 0>>, vel |-> <<0, 0, 0>>],
     [pos |-> <<500, 500, 0>>, vel |-> <<100, -100, 0>>],
     [pos |-> <<-3000, 0, 500>>, vel |-> <<0, 300, -50>>]}

\* the integrator's result from the current row 0 with the satellite at s
RunWithSat(s) ==
    integrate(time_step_in_seconds(params), num_steps(params), star_mass, planet_mass,
              [Memory EXCEPT !.sat_pos = SetRow(@, 0, s.pos),
                             !.sat_vel = SetRow(@, 0, s.vel)])

\* 1 / |v|^3
InvCubed(v) == FDiv(R(1), FMul(norm(v), FMul(norm(v), norm(v))))

\* the accelerations at the positions s, p, t of star, planet and satellite:
\* the star's is scaled by planet_mass and the planet's by star_mass, in
\* opposite directions along their separation, and the satellite's is the sum
\* of a pull to the star scaled by star_mass and one to the planet scaled by
\* planet_mass
AccelStructure(s, p, t) ==
    \E acc \in {calc_acceleration(FMul(G, R(star_mass)), FMul(G, R(planet_mass)), s, p, t)} :
        acc.err = "None" =>
          /\ acc.val.star_accel =
               VScale(-FMul(FMul(G, R(planet_mass)), InvCubed(VSub(s, p))), VSub(s, p))
          /\ acc.val.planet_accel =
               VScale(FMul(FMul(G, R(star_mass)), InvCubed(VSub(s, p))), VSub(s, p))
          /\ acc.val.sat_accel =
               VAdd(VScale(FMul(FMul(G, R(star_mass)), InvCubed(VSub(s, t))), VSub(s, t)),
                    VScale(FMul(FMul(G, R(planet_mass)), InvCubed(VSub(p, t))), VSub(p, t)))

\* C19: the satellite does not perturb the star and the planet: from the row
\* 0 of the star and planet that a run started with, the integrator produces
\* the same star and planet series for every row-0 state of the satellite;
\* and the accelerations have the stated structure at every row's positions.
C19_SatelliteDoesNotPerturb ==
    Simulated =>
      /\ \A s \in OtherSatStates : \E m \in {RunWithSat(s)} :
            m.err = "None" =>
              /\ m.star_pos = star_pos
              /\ m.star_vel = star_vel
              /\ m.planet_pos = planet_pos
              /\ m.planet_vel = planet_vel
      /\ \A k \in 0..num_steps(params) :
            AccelStructure(Row(star_pos, k), Row(planet_pos, k), Row(sat_pos, k))

\* a run of three steps in which star and planet moved, and that the
\* integrator completes with the satellite elsewhere, on another path
C19_Witness ==
    /\ Simulated
    /\ num_steps(params) = 3
    /\ Row(star_pos, 3) # Row(star_pos, 0)
    /\ Row(planet_pos, 3) # Row(planet_pos, 0)
    /\ \A s \in OtherSatStates : \E m \in {RunWithSat(s)} :
          m.err = "None" /\ Row(m.sat_pos, 3) # Row(sat_pos, 3)

\* the times the rows stand for: row k is k steps of |time_step_in_seconds|
\* after row 0
RowTimes == [i \in 1..(num_steps(params) + 1) |-> (i - 1) * Abs(time_step_in_seconds(params))]

\* the series pos with row k turned by -omega * t_k, omega carrying the sign
\* of the time step and t_k = k * |time_step_in_seconds|
TurnedByRowTimes(pos) ==
    nb_transform_to_corotating(pos, RowTimes,
        angular_speed(params).val * Sgn(time_step_in_seconds(params)), 0)

\* transform_to_corotating returned, called with a series of num_steps + 1 rows
Transformed ==
    /\ lastOp.op = "transform_to_corotating"
    /\ err = "None"
    /\ AllLen(num_steps(params) + 1)

\* C20: the time transform_to_corotating associates with row k is
\* k * |time_step_in_seconds| for every k in 0..num_steps, also when sim_time
\* is not an integer multiple of the time step; what it returns for a stored
\* series is the series with row k turned by -omega * t_k, omega signed by
\* the time step, and row 0 is returned as it is.
C20_RowTimesAreStepMultiples ==
    /\ time_points(params) = RowTimes
    /\ Transformed =>
         /\ ret \in {TurnedByRowTimes(pos) : pos \in {star_pos, planet_pos, sat_pos}}
         /\ ret[1] \in {<<pos[1][1], pos[1][2]>> : pos \in {star_pos, planet_pos, sat_pos}}

\* a stored run of two steps of 2 hours over a year of 3 hours (the model's
\* units), transformed: the last row was turned by the angle of 3 hours
C20_Witness ==
    /\ Transformed
    /\ num_years = 1
    /\ time_step = 2
    /\ time_points(params) = <<0, 150, 300>>
    /\ ret \notin {TurnedByRowTimes(pos) : pos \in {star_pos, planet_pos, sat_pos}}

\* the same statement where sim_time is a multiple of the time step
C20_WhenMultiple ==
    (time_step # 0 /\ sim_time(params) % Abs(time_step_in_seconds(params)) = 0)
        => C20_RowTimesAreStepMultiples

\* _simulate was the last handler, called with the form lastOp.value while no
\* calculation was under way
Requested == lastOp.op = "_simulate" /\ lastOp.attr = "form"

\* the ways the claim lists for a numerical field to fail to evaluate, by
\* the text that fails that way
FailingTexts ==
    {TEXT_TWO, TEXT_E, TEXT_1_PLUS, TEXT_1_OVER_0, TEXT_ROOT_OF_MINUS_1, TEXT_2_TO_THE_10000}

\* C15: getInputs returns a value for every input field or raises
\* ValueError: each field's text evaluates to None (the empty text) or to a
\* number, or fails, and every failure (disallowed characters, unknown name,
\* syntax error, division by zero, non-real result, arithmetic overflow)
\* reaches the caller of getInputs as ValueError and as no other exception.
C15_OnlyValueError ==
    Requested =>
      \E inputs \in {getInputs(lastOp.value)} :
         /\ inputs.err \in {"None", "ValueError"}
         /\ inputs.err = "None" =>
              \A a \in Attributes \ {"lagrange_label"} :
                 /\ inputs.val[a] = None <=> lastOp.value[a] = <<>>
                 /\ inputs.val[a] # None => inputs.val[a][1] \in Int
         /\ (\E a \in Attributes \ {"lagrange_label"} : lastOp.value[a] \in FailingTexts)
              => inputs.err = "ValueError"

\* the form with the time step 2.0**10000 was submitted: OverflowError left
\* getInputs and _simulate
C15_Witness ==
    /\ Requested
    /\ lastOp.value.time_step = TEXT_2_TO_THE_10000
    /\ getInputs(lastOp.value).err = "OverflowError"
    /\ err = "OverflowError"
    /\ gui.aborted

\* the same statement for the forms without an arithmetic overflow
C15_ExceptOverflow ==
    (Requested /\ lastOp.value.time_step # TEXT_2_TO_THE_10000)
        => C15_OnlyValueError

\* a field of the form fails to evaluate, or the attribute's descriptor
\* rejects its value
FormRejected(form) ==
    \/ \E a \in Attributes \ {"lagrange_label"} : \E v \in {safe_eval(form[a])} :
          \/ v.err # "None"
          \/ ~has_type(a, v.val)
          \/ ~validate(a, to_param(a, v.val))
    \/ ~validate("lagrange_label", form.lagrange_label)

\* C12: a simulate request in which the evaluation of a field or the
\* assignment of an attribute fails never runs the simulation: _simulate
\* starts no worker, leaves the trajectory as it is and the buttons as
\* enabled as they were.
C12_RejectedRequestNeverRuns ==
    [][(lastOp'.op = "_simulate" /\ lastOp'.attr = "form" /\ FormRejected(lastOp'.value))
         => /\ gui'.workers = gui.workers
            /\ gui'.calculating = gui.calculating
            /\ gui'.enabled = gui.enabled
            /\ traj' = traj]_vars

\* after a run of two steps, a form with 2.0 years and the planet distance 0
\* was submitted: the years were assigned, the distance was rejected, and the
\* trajectory, the buttons and the workers are as the run left them
C12_Witness ==
    /\ Requested
    /\ lastOp.value.planet_distance = TEXT_0
    /\ FormRejected(lastOp.value)
    /\ err = "ValueError"
    /\ num_years = 2
    /\ AllLen(3)
    /\ gui.enabled = Buttons
    /\ gui.workers = <<>>
    /\ ~gui.calculating

\* the workers of g whose function is executing
Running(g) == {i \in 1..Len(g.workers) : g.workers[i].phase = "running"}

\* C11: while a worker's computation (simulate or the conserved-quantity
\* calculation) is in progress, no parameter of the Simulator is assigned and
\* no second worker is started, under every interleaving of clicks, return
\* presses, the auto-plot option and worker completion; at most one worker
\* works on the trajectory buffers at a time.
C11_OneWorkerAtATime ==
    [][/\ params' # params => Running(gui) = {}
       /\ Len(gui'.workers) > Len(gui.workers) => Running(gui) = {}
       /\ Cardinality(Running(gui')) <= 1]_vars

\* simulate() and the conserved-quantity calculation are executing at once,
\* in two workers
C11_Witness ==
    /\ Cardinality(Running(gui)) = 2
    /\ \E i \in Running(gui) : gui.workers[i].func = "simulate"
    /\ \E i \in Running(gui) : gui.workers[i].func = "calcConservedQuantities"

\* C13: no partial results are exposed mid-run: while simulate() is
\* executing in a worker the GUI thread never reads the trajectory buffers:
\* the plots are refreshed only after the worker's finished signal, and the
\* animation timer, stopped before the worker starts, is not active.
C13_NoReadMidRun ==
    /\ ~gui.readMidRun
    /\ SimRunning(gui) => ~gui.timer

\* the orbit plots were refreshed, for the finished signal of an earlier
\* run, while simulate() was executing; no conserved-quantity worker was
\* ever started
C13_Witness ==
    /\ gui.readMidRun
    /\ SimRunning(gui)
    /\ lastOp.op = "finished"
    /\ ~gui.autoPlot
    /\ Len(gui.workers) = 1
    /\ gui.requests = 2
    /\ gui.conserved = <<>>

\* the row (x, y, z) turned by -angular_speed * t about the z axis
Rotated(row, t, angular_speed_) ==
    LET angle == -FMul(angular_speed_, t)
    IN <<FMul(FCos(angle), row[1]) - FMul(FSin(angle), row[2]),
         FMul(FSin(angle), row[1]) + FMul(FCos(angle), row[2])>>

InLoop == lastOp.op = "prange"

\* C21: the co-rotating transform is a per-sample map.  pos_corotating has
\* one row of two components per row of pos_trans; the row an iteration has
\* written is the input row turned by the angle of its own time, whatever
\* the other iterations have done; an iteration writes its own output row
\* and nothing else, never the input; and whatever the order in which the
\* iterations complete, the call returns what the loop returns run in
\* sequence.
C21_PerSampleMap ==
    /\ [](InLoop =>
            /\ Len(ret.pos_corotating) = Len(ret.pos_trans)
            /\ \A i \in 1..Len(ret.pos_trans) :
                 /\ Len(ret.pos_corotating[i]) = 2
                 /\ i \notin ret.todo =>
                      ret.pos_corotating[i] =
                          Rotated(ret.pos_trans[i],
                                  IF i <= Len(ret.times) THEN ret.times[i] ELSE ret.junk,
                                  ret.angular_speed))
    /\ [][/\ (InLoop /\ InLoop') =>
               /\ ret'.pos_trans = ret.pos_trans
               /\ ret'.times = ret.times
               /\ traj' = traj
               /\ Cardinality(ret.todo \ ret'.todo) = 1
               /\ ret'.todo \subseteq ret.todo
               /\ \A j \in 1..Len(ret.pos_trans) :
                    j \notin (ret.todo \ ret'.todo)
                        => ret'.pos_corotating[j] = ret.pos_corotating[j]
          /\ (InLoop /\ ~InLoop') =>
               ret' = nb_transform_to_corotating(ret.pos_trans, ret.times,
                                                 ret.angular_speed, ret.junk)]_vars

\* rows 1 and 2 of a stored run were written before row 0, and row 2 was
\* turned by an angle that is not zero
C21_Witness ==
    /\ InLoop
    /\ Len(ret.pos_trans) = 3
    /\ ret.todo = {1}
    /\ ret.pos_corotating[3] # <<ret.pos_trans[3][1], ret.pos_trans[3][2]>>
    /\ ret.pos_corotating[3] = Rotated(ret.pos_trans[3], ret.times[3], ret.angular_speed)

\* the default perturbation angle of each Lagrange point, in degrees
DefaultAngle == [L1 |-> 0, L2 |-> 0, L3 |-> 180, L4 |-> 60, L5 |-> -60]

\* one of the two angle properties was read
AngleRead == lastOp.op \in {"actual_perturbation_angle", "actual_vel_angle"}

\* what the two properties are to return for the current parameters
AnglesAsSupplied ==
    /\ err = "None"
    /\ lastOp.op = "actual_perturbation_angle" =>
         ret = IF perturbation_angle # None THEN perturbation_angle[1]
               ELSE DefaultAngle[lagrange_label]
    /\ lastOp.op = "actual_vel_angle" =>
         ret = IF vel_angle # None THEN vel_angle[1]
               ELSE DefaultAngle[lagrange_label] + 90

\* C22: the angle used is the supplied parameter whenever one is present,
\* an explicit 0 included, and the default only when the parameter is None:
\* 0 for L1 and L2, 180 for L3, 60 for L4, -60 for L5, and for the velocity
\* that default plus 90 degrees, whatever perturbation_angle was supplied.
C22_SuppliedAngleIsUsed == AngleRead => AnglesAsSupplied

\* a Simulation at L4 was given the perturbation angle 0 and uses 60
C22_Witness ==
    /\ lastOp.op = "actual_perturbation_angle"
    /\ lastOp.attr = "Simulation"
    /\ lagrange_label = "L4"
    /\ perturbation_angle = Some(0)
    /\ ret = 60

\* the same statement of the Simulator class alone
C22_OfSimulator == (AngleRead /\ lastOp.attr = "Simulator") => AnglesAsSupplied

\* the angle the claims give the perturbation, in degrees
Theta ==
    IF perturbation_angle # None THEN perturbation_angle[1]
    ELSE DefaultAngle[lagrange_label]

\* perturbation_size * AU * (cos theta, sin theta, 0)
PerturbationVector ==
    VScale(perturbation_size * AU, <<FCos(Radians(Theta)), FSin(Radians(Theta)), 0>>)

\* the centre of mass of the three bodies as _initialize_positions places
\* them for the current parameters: the star at the origin, the planet on
\* the x axis, the satellite at the Lagrange point plus the perturbation
PlacedCentreOfMass ==
    LET total == R(star_mass) + R(planet_mass) + SAT_MASS
        sat == VAdd(calc_lagrange_point(params).val, PerturbationVector)
    IN <<FDiv(planet_mass * (planet_distance * AU) + FMul(SAT_MASS, sat[1]), total),
         FDiv(FMul(SAT_MASS, sat[2]), total),
         FDiv(FMul(SAT_MASS, sat[3]), total)>>

\* C23: lagrange_point_trans is recomputed by every simulate() from the
\* parameters current at that call.  When simulate() has returned,
\* sat_pos[0] - lagrange_point_trans is the perturbation vector
\* perturbation_size * AU * (cos theta, sin theta, 0); with perturbation_size
\* = 0 the satellite starts at lagrange_point_trans; and lagrange_point_trans
\* is the Lagrange point of the current parameters seen from their centre of
\* mass, not a value an earlier run left.
C23_LagrangePointRecomputed ==
    Simulated =>
        /\ VSub(sat_pos[1], lagrange_point_trans) = PerturbationVector
        /\ perturbation_size = 0 => sat_pos[1] = lagrange_point_trans
        /\ lagrange_point_trans =
             VSub(calc_lagrange_point(params).val, PlacedCentreOfMass)

\* a second run, made after perturbation_size was set to 1: the satellite
\* starts away from the Lagrange point, and the Lagrange point is not where
\* the first run had it
C23_Witness ==
    /\ Simulated
    /\ perturbation_size = 1
    /\ Cardinality(seen) = 2
    /\ sat_pos[1] # lagrange_point_trans
    /\ \E e \in seen : e.p # params /\ e.t[5][1] # lagrange_point_trans

\* star_mass * star_pos[0] + planet_mass * planet_pos[0] + SAT_MASS * sat_pos[0]
MassWeightedSum ==
    VAdd(VAdd(VScale(R(star_mass), star_pos[1]), VScale(R(planet_mass), planet_pos[1])),
         VScale(SAT_MASS, sat_pos[1]))

\* C24: after every simulate() the initial state is centred on the centre
\* of mass of all three bodies, the satellite with its mass SAT_MASS
\* included: the mass-weighted sum of the three initial positions is the
\* zero vector (each component is less than the total mass times the
\* resolution of the model's reals, which is what the division that computes
\* the centre of mass truncates); the planet is planet_distance * AU from the
\* star along +x; and the initial velocities of the star and the planet are
\* omega z-hat cross their positions in that frame.
C24_CentredOnCentreOfMass ==
    Simulated =>
        /\ \A j \in 1..3 :
             Abs(MassWeightedSum[j]) * Scale < R(star_mass) + R(planet_mass) + SAT_MASS
        /\ VSub(planet_pos[1], star_pos[1]) = <<planet_distance * AU, 0, 0>>
        /\ star_vel[1] = cross(<<0, 0, angular_speed(params).val>>, star_pos[1])
        /\ planet_vel[1] = cross(<<0, 0, angular_speed(params).val>>, planet_pos[1])

\* a run at L4: the satellite is off the x axis, so the centre of mass is
\* too, and the star, placed at the origin, has been moved off it
C24_Witness ==
    /\ Simulated
    /\ lagrange_label = "L4"
    /\ sat_pos[1][2] # 0
    /\ star_pos[1][1] # 0
    /\ star_pos[1][2] # 0
    /\ star_vel[1] # <<0, 0, 0>>

\* C25: motion stays in the x-y plane.  After simulate() the z component
\* of every position and every velocity of the three bodies is 0 at every
\* row, and the x and y components of the total angular momentum are 0 at
\* every sample.
C25_MotionInPlane ==
    Simulated =>
        /\ \A s \in 1..6 : \A k \in 1..Len(traj[s]) : traj[s][k][3] = 0
        /\ \A L \in {calc_total_angular_momentum(params, Memory)} :
             \A k \in 1..Len(L) : L[k][1] = 0 /\ L[k][2] = 0

\* a run of three steps in which the satellite moved and the total angular
\* momentum about z is not zero
C25_Witness ==
    /\ Simulated
    /\ Len(sat_pos) = 4
    /\ sat_pos[4] # sat_pos[1]
    /\ sat_vel[4][1] # 0
    /\ sat_vel[4][2] # 0
    /\ calc_total_angular_momentum(params, Memory)[4][3] # 0

\* array_step() was the last call
Stepped == lastOp.op = "array_step"

\* C26: plotting slices the arrays so that at most 10**5 points are
\* plotted: for every num_steps >= 0, array_step() returns a step >= 1 such
\* that every step-th row of a series of num_steps + 1 rows is at most
\* 10**5 rows.
C26_AtMostHundredThousandPoints ==
    Stepped => ret.arr_step >= 1 /\ ret.rows <= 100000

\* a run of 199 998 steps: the step is 1 and all 199 999 rows are plotted
C26_Witness ==
    /\ Stepped
    /\ num_steps(params) = 199998
    /\ ret.arr_step = 1
    /\ ret.rows = 199999

\* what the slices do keep: a step of at least 1 and fewer than 2 * 10**5 rows
C26_FewerThanTwiceAsMany ==
    Stepped => ret.arr_step >= 1 /\ ret.rows < 200000

\* _applyPreset has ended
Applied == lastOp.op = "_applyPreset"

\* the preset p of the table reaches itself through the bases
RECURSIVE ReachesThroughBases(_, _, _, _)
ReachesThroughBases(presets, from, to, n) ==
    n > 0 /\ \E k \in 1..Len(presets[from].bases) :
                \/ presets[from].bases[k] = to
                \/ ReachesThroughBases(presets, presets[from].bases[k], to, n - 1)

HasCycle(presets) ==
    \E name \in DOMAIN presets : ReachesThroughBases(presets, name, name, 3)

\* C30: applying a preset terminates for every preset table, also when
\* presets name each other as bases: _applyPreset returns, and when it has
\* returned every field the preset gives a value of its own holds that
\* value, whatever its bases gave the field.
C30_ApplyPresetFinishes ==
    Applied =>
        /\ err = "None"
        /\ \A a \in DOMAIN lastOp.value[lastOp.attr].values :
             gui.inputFields[a] = lastOp.value[lastOp.attr].values[a]

\* presets A and B name each other as bases: applying A ends in
\* RecursionError, and the number of years A sets was never written
C30_Witness ==
    /\ Applied
    /\ lastOp.attr = "A"
    /\ lastOp.value["A"].bases = <<"B">>
    /\ lastOp.value["B"].bases = <<"A">>
    /\ err = "RecursionError"
    /\ gui.aborted
    /\ gui.inputFields.num_years = DefaultForm.num_years

\* the same statement of the tables without a cycle, where moreover a field
\* the preset leaves to its bases holds what the last base that sets it gave
C30_WithoutCycle ==
    (Applied /\ ~HasCycle(lastOp.value)) =>
        /\ err = "None"
        /\ \A a \in DOMAIN lastOp.value[lastOp.attr].values :
             gui.inputFields[a] = lastOp.value[lastOp.attr].values[a]
        /\ (lastOp.attr = "C" /\ lastOp.value["C"].bases = <<"B", "A">>)
              => gui.inputFields.speed = TEXT_0
        /\ (lastOp.attr = "C" /\ lastOp.value["C"].bases = <<"A", "B">>)
              => gui.inputFields.num_years = TEXT_1 /\ gui.inputFields.speed = TEXT_0

\* rows k, k + 1, ... of the series arr holding never-written memory g
BlankFrom(arr, k, g) == [i \in 1..Len(arr) |-> IF i > k THEN g ELSE arr[i]]

\* the object's memory with the rows from k on never written
MemoryBlankFrom(k, g) ==
    [Memory EXCEPT !.star_pos = BlankFrom(@, k, g), !.star_vel = BlankFrom(@, k, g),
                   !.planet_pos = BlankFrom(@, k, g), !.planet_vel = BlankFrom(@, k, g),
                   !.sat_pos = BlankFrom(@, k, g), !.sat_vel = BlankFrom(@, k, g)]

\* C27: within one simulate() every row of the six buffers is written and
\* no other index is touched.  The buffers have num_steps + 1 >= 1 rows;
\* initialization writes row 0 of each and leaves the other rows as
\* allocated; step k of the integrator, for k = 1..num_steps, reads rows
\* below k only, writes row k of each buffer and leaves every other row as
\* it was, so that each row is written exactly once and none keeps
\* never-written memory or the data of an earlier run.
C27_EveryRowWrittenOnce ==
    Simulated =>
        /\ AllLen(num_steps(params) + 1)
        /\ Len(star_pos) >= 1
        /\ \A g \in GarbageVecs :
             /\ \E m \in {initialize_arrays(params, Fresh(g), g)} :
                  \E now \in {MemoryBlankFrom(1, g)} :
                     /\ m.star_pos = now.star_pos /\ m.star_vel = now.star_vel
                     /\ m.planet_pos = now.planet_pos /\ m.planet_vel = now.planet_vel
                     /\ m.sat_pos = now.sat_pos /\ m.sat_vel = now.sat_vel
             /\ \A k \in 1..num_steps(params) :
                  verlet_step(time_step_in_seconds(params), FMul(G, R(star_mass)),
                              FMul(G, R(planet_mass)), MemoryBlankFrom(k, g), k)
                      = MemoryBlankFrom(k + 1, g)
             /\ \A s \in 1..6 : \A k \in 1..Len(traj[s]) : traj[s][k] # g

\* a run of two steps in buffers that an earlier, different run of two
\* steps had filled
C27_Witness ==
    /\ Simulated
    /\ Len(star_pos) = 3
    /\ \E e \in seen : e.p # params /\ Len(e.t[1]) = 3 /\ e.t[5][3] # sat_pos[3]

\* the window is locked: _calculating is True and a button is disabled
Locked == gui.calculating /\ gui.enabled # Buttons

\* something is left that will call _enableButtons and _setCalculatingFalse:
\* a worker that has not emitted finished to all its slots, or a posted call
UnlockPending == gui.workers # <<>> \/ gui.events # <<>>

\* C28: every worker the controller starts is followed by the buttons
\* being enabled again and _calculating being reset, for every parameter set
\* the validators accept and also when the function run in the worker
\* raises: the window is never locked with nothing left to unlock it, that
\* is, whenever it is locked the application is running and a worker or a
\* posted slot call is still there to unlock it.
C28_NeverStaysLocked == Locked => (~gui.aborted /\ UnlockPending)

\* star mass 0 was accepted and simulate() raised ZeroDivisionError in the
\* worker: finished was never emitted, the buttons are disabled for good
C28_Witness ==
    /\ Locked
    /\ gui.aborted
    /\ star_mass = 0
    /\ err = "ZeroDivisionError"
    /\ lastOp.op = "run"
    /\ gui.enabled = {}
    /\ gui.events = <<>>

\* the same statement of the runs in which no worker's function raises
C28_UnlessWorkerRaises == (Locked /\ ~gui.aborted) => UnlockPending

\* no runnable is in flight and the buffers hold a run: a simulate() has
\* completed in a worker, and the worker has emitted finished and is gone
SimulationCompleted == gui.workers = <<>> /\ ~gui.aborted /\ Len(star_pos) > 0

\* C29: in the window, whenever no worker is running and a simulation has
\* completed, the parameters of the Simulator agree with the stored
\* trajectory: each of the six series has num_steps + 1 rows, also after a
\* Simulate request that was rejected because a later field was invalid, so
\* that the indices below num_steps the animation callback reads and the
\* num_steps + 1 time points of the conserved-quantity plots lie within the
\* stored series.
C29_ParametersAgreeWithTrajectory ==
    SimulationCompleted => AllLen(num_steps(params) + 1)

\* after a run of two steps the user asked for two years and a planet
\* distance of 0: the request was rejected at the distance, the number of
\* years had been assigned, and num_steps is 3 over series of three rows
C29_Witness ==
    /\ SimulationCompleted
    /\ Requested
    /\ err = "ValueError"
    /\ lastOp.value.planet_distance = TEXT_0
    /\ num_years = 2
    /\ num_steps(params) = 3
    /\ AllLen(3)

=============================================================================
